---------------------------- MODULE Spec2Model ----------------------------
(***************************************************************************)
(* A model of the distribution toolkit of thinkstats2.py: the value->weight *)
(* maps (Hist, Pmf), the Cdf, the Suite's Bayesian update, the resampling   *)
(* HypothesisTest engine and the Kaplan-Meier hazard estimator.             *)
(*                                                                          *)
(* Numbers are exact rationals <<n, d>> (d > 0, lowest terms): the model     *)
(* states what the arithmetic computes, not its floating-point rounding.    *)
(* A Python dict is a sequence of <<key, weight>> pairs with distinct keys, *)
(* in insertion order, which is the order Python iterates it in.            *)
(***************************************************************************)
EXTENDS Integers, Sequences, FiniteSets, TLC

(***************************************************************************)
(* Bounds of the model.                                                     *)
(***************************************************************************)
\* largest value of a raw sample, largest key of a map
MaxVal == 2
\* longest raw sample handed to a constructor
MaxLen == 3
\* largest weight of a dict handed to a constructor
MaxW == 2
\* largest key of the operands of the Pmf algebra
MaxKey == 1
\* Copy/Shift/Scale/Max calls applied to one Cdf
MaxOps == 2
\* largest k handed to Cdf.Max
MaxK == 2
\* Max is applied while the cumulative probabilities have denominators up to
\* DenCap, which keeps the powers within TLC's 32-bit integers
DenCap == 30
\* Update calls made on one Suite
MaxUpdates == 2
\* largest number of flips in the data of a CoinTest
MaxFlips == 3
\* largest iteration count handed to PValue
MaxIters == 2
\* mutations applied after a structure has been derived
MaxMutations == 2

\* MakeOdds and MakeProbs are followed while the numerators and denominators
\* of the weights stay within OddsCap
OddsCap == 6

VARIABLES
    mm,      \* the map the constructor call returned: [kind, d, log]
    mop,     \* the constructor call made: [op, arg, ok]
    pa,      \* Pmf operand A: [d, log]
    pb,      \* Pmf operand B: [d, log]
    pres,    \* the Pmf the last binary operation returned
    pop,     \* the last binary operation
    cdf,     \* the Cdf: [xs, ps], or NoCdf before it is constructed
    cn,      \* operations applied to the Cdf since its construction
    cq,      \* the last Cdf query: [op, arg, ret], ret = [err, val]
    suite,   \* the Suite that Update is called on: [d, log]
    batch,   \* a Suite with an equal prior, which UpdateSet is called on
    sdata,   \* the data handed to Update so far, in order
    sok,     \* whether every Update call so far returned
    slast,   \* the last Update call: [op, data, pre, ret, ok]
    bset,    \* the UpdateSet call: [done, arg, ret, ok]
    ht,      \* the HypothesisTest object
    hret,    \* the last call on it: [op, arg, val, err]
    hpv,     \* whether PValue has been called on it
    hz,      \* the last EstimateHazardFunction call: its arguments and result
    hf,      \* the HazardFunction: [made, series]
    sf,      \* the SurvivalFunction MakeSurvival returned: [made, ts, ss]
    emp,     \* the SurvivalFunction MakeSurvivalFromSeq returned, or its error
    sq,      \* the last SurvivalFunction.Prob call: [op, arg, ret]
    wm,      \* a Hist or Pmf that methods are called on: [d, log]
    wcall,   \* the last call on it: [op, arg, pre, err, ret]
    heap,    \* the dicts and arrays allocated so far, by address
    src,     \* the object a structure is derived from: the addresses it holds
    der,     \* the derived object
    frame    \* the derivation and what was mutated since: [op, who, src, der]

mapVars == <<mm, mop>>
pmfVars == <<pa, pb, pres, pop>>
cdfVars == <<cdf, cn, cq>>
suiteVars == <<suite, batch, sdata, sok, slast, bset>>
testVars == <<ht, hret, hpv>>
hazVars == <<hz>>
survVars == <<hf, sf, emp, sq>>
opVars == <<wm, wcall>>
heapVars == <<heap, src, der, frame>>
vars == <<mapVars, pmfVars, cdfVars, suiteVars, testVars, hazVars, survVars, opVars, heapVars>>

\* what the operations of one component leave alone
notMap == <<pmfVars, cdfVars, suiteVars, testVars, hazVars, survVars, opVars, heapVars>>
notPmf == <<mapVars, cdfVars, suiteVars, testVars, hazVars, survVars, opVars, heapVars>>
notCdf == <<mapVars, pmfVars, suiteVars, testVars, hazVars, survVars, opVars, heapVars>>
notSuite == <<mapVars, pmfVars, cdfVars, testVars, hazVars, survVars, opVars, heapVars>>
notTest == <<mapVars, pmfVars, cdfVars, suiteVars, hazVars, survVars, opVars, heapVars>>
notHaz == <<mapVars, pmfVars, cdfVars, suiteVars, testVars, survVars, opVars, heapVars>>
notSurv == <<mapVars, pmfVars, cdfVars, suiteVars, testVars, opVars, heapVars>>
notOp == <<mapVars, pmfVars, cdfVars, suiteVars, testVars, hazVars, survVars, heapVars>>
notHeap == <<mapVars, pmfVars, cdfVars, suiteVars, testVars, hazVars, survVars, opVars>>

(***************************************************************************)
(* Exact rational arithmetic.                                               *)
(***************************************************************************)
Abs(n) == IF n < 0 THEN -n ELSE n

RECURSIVE GCD(_, _)
GCD(a, b) == IF b = 0 THEN a ELSE GCD(b, a % b)

\* the rational n/d in lowest terms with a positive denominator (d # 0)
Rat(n, d) ==
    LET g == GCD(Abs(n), Abs(d))
        s == IF d < 0 THEN -1 ELSE 1
    IN  <<(s * n) \div g, (s * d) \div g>>

Zero == <<0, 1>>
One == <<1, 1>>
FromInt(n) == <<n, 1>>

RAdd(p, q) == Rat(p[1] * q[2] + q[1] * p[2], p[2] * q[2])
RSub(p, q) == Rat(p[1] * q[2] - q[1] * p[2], p[2] * q[2])
RMul(p, q) == Rat(p[1] * q[1], p[2] * q[2])
\* p / q, for q # 0
RDiv(p, q) == Rat(p[1] * q[2], p[2] * q[1])
RLt(p, q) == p[1] * q[2] < q[1] * p[2]
RLe(p, q) == p[1] * q[2] <= q[1] * p[2]

RECURSIVE RPow(_, _)
RPow(p, k) == IF k = 0 THEN One ELSE RMul(p, RPow(p, k - 1))

(***************************************************************************)
(* Python dicts: _DictWrapper.d                                             *)
(***************************************************************************)
Keys(d) == {d[i][1] : i \in 1..Len(d)}

HasKey(d, k) == \E i \in 1..Len(d) : d[i][1] = k

\* d.get(k, default)
DictGet(d, k, default) ==
    IF HasKey(d, k)
    THEN d[CHOOSE i \in 1..Len(d) : d[i][1] = k][2]
    ELSE default

\* d[k] = w: an existing key keeps its place, a new one goes last
DictSet(d, k, w) ==
    IF HasKey(d, k)
    THEN [i \in 1..Len(d) |-> IF d[i][1] = k THEN <<k, w>> ELSE d[i]]
    ELSE Append(d, <<k, w>>)

\* _DictWrapper.Set
Set(d, x, y) == DictSet(d, x, y)

\* Incr with the old weight dropped: d[x] = term
IncrOverwrites(d, x, term) == DictSet(d, x, term)

\* _DictWrapper.Incr
Incr(d, x, term) == DictSet(d, x, RAdd(DictGet(d, x, Zero), term))

\* _DictWrapper.Mult
Mult(d, x, factor) == DictSet(d, x, RMul(DictGet(d, x, Zero), factor))

\* _DictWrapper.Remove: del self.d[x]
Remove(d, x) == SelectSeq(d, LAMBDA item : item[1] # x)

\* _DictWrapper.Total: sum(self.d.values())
RECURSIVE Total(_)
Total(d) == IF d = <<>> THEN Zero ELSE RAdd(Total(SubSeq(d, 1, Len(d) - 1)), d[Len(d)][2])

\* collections.Counter(obj): tally in order of first occurrence
RECURSIVE Counter(_)
Counter(s) ==
    IF s = <<>> THEN <<>>
    ELSE Incr(Counter(SubSeq(s, 1, Len(s) - 1)), s[Len(s)], One)

\* the object Pmf() / Hist(): empty map, not under a log transform
EmptyMap == [d |-> <<>>, log |-> FALSE]

\* Normalize with the weights left unscaled
NormalizeUnscaled(m, fraction) == [ok |-> TRUE, m |-> m, ret |-> Total(m.d)]

\* Normalize with the target total taken to be 1 whatever fraction is
NormalizeIgnoresFraction(m, fraction) ==
    IF m.log \/ Total(m.d) = Zero
    THEN [ok |-> FALSE, m |-> m, ret |-> "ValueError"]
    ELSE [ok |-> TRUE,
          m |-> [m EXCEPT !.d = [i \in 1..Len(m.d) |->
                                   <<m.d[i][1], RDiv(m.d[i][2], Total(m.d))>>]],
          ret |-> Total(m.d)]

\* Normalize that returns the zero total instead of raising
NormalizeZeroSilent(m, fraction) ==
    IF m.log
    THEN [ok |-> FALSE, m |-> m, ret |-> "ValueError"]
    ELSE LET total == Total(m.d) IN
         [ok |-> TRUE,
          m |-> IF total = Zero THEN m
                ELSE [m EXCEPT !.d = [i \in 1..Len(m.d) |->
                        <<m.d[i][1], RMul(m.d[i][2], RDiv(fraction, total))>>]],
          ret |-> total]

\* Pmf.Normalize(fraction) on object m: [ok, m, ret]
Normalize(m, fraction) ==
    IF m.log
    THEN [ok |-> FALSE, m |-> m, ret |-> "ValueError"]
    ELSE LET total == Total(m.d) IN
         IF total = Zero
         THEN [ok |-> FALSE, m |-> m, ret |-> "ValueError"]
         ELSE LET factor == RDiv(fraction, total) IN
              [ok |-> TRUE,
               m |-> [m EXCEPT !.d = [i \in 1..Len(m.d) |->
                                        <<m.d[i][1], RMul(m.d[i][2], factor)>>]],
               ret |-> total]

\* Pmf(obj) for a raw sequence obj: tally it, then normalize unless empty
PmfFromSeq(s) ==
    LET m == [EmptyMap EXCEPT !.d = Counter(s)] IN
    IF Len(m.d) > 0 THEN Normalize(m, One).m ELSE m

\* Hist(obj) for a raw sequence obj: tally it, never normalized
HistFromSeq(s) == [EmptyMap EXCEPT !.d = Counter(s)]

(***************************************************************************)
(* Pmf algebra on two Pmfs                                                  *)
(***************************************************************************)
\* v1 OP v2 on the keys: + in AddPmf, - in SubPmf, * in MulPmf
KeyOp(op, v1, v2) ==
    CASE op = "add" -> v1 + v2
      [] op = "sub" -> v1 - v2
      [] op = "mul" -> v1 * v2

\* the inner loop of AddPmf/SubPmf/MulPmf: for v2, p2 in other.Items()
RECURSIVE InnerLoop(_, _, _, _, _)
InnerLoop(acc, v1, p1, od, op) ==
    IF od = <<>> THEN acc
    ELSE InnerLoop(Incr(acc, KeyOp(op, v1, od[1][1]), RMul(p1, od[1][2])),
                   v1, p1, Tail(od), op)

\* the outer loop: for v1, p1 in self.Items()
RECURSIVE OuterLoop(_, _, _, _)
OuterLoop(acc, sd, od, op) ==
    IF sd = <<>> THEN acc
    ELSE OuterLoop(InnerLoop(acc, sd[1][1], sd[1][2], od, op), Tail(sd), od, op)

AddPmf(self, other) == [EmptyMap EXCEPT !.d = OuterLoop(<<>>, self.d, other.d, "add")]
SubPmf(self, other) == [EmptyMap EXCEPT !.d = OuterLoop(<<>>, self.d, other.d, "sub")]
MulPmf(self, other) == [EmptyMap EXCEPT !.d = OuterLoop(<<>>, self.d, other.d, "mul")]

(***************************************************************************)
(* Inputs: raw samples and dicts                                            *)
(***************************************************************************)
Vals == 0..MaxVal

\* the raw samples: every sequence over Vals of length at most MaxLen
RawSeqs == UNION {[1..n -> Vals] : n \in 0..MaxLen}

\* the keys of S in ascending order
RECURSIVE Ascending(_)
Ascending(S) ==
    IF S = {} THEN <<>>
    ELSE LET lo == CHOOSE x \in S : \A y \in S : x <= y IN
         <<lo>> \o Ascending(S \ {lo})

Reverse(s) == [i \in 1..Len(s) |-> s[Len(s) + 1 - i]]

\* the dict with the keys ks (in that order) and the weights w[k]
DictOf(ks, w) == [i \in 1..Len(ks) |-> <<ks[i], w[ks[i]]>>]

\* the dicts {k: w} with keys among K and weights among W, keys ascending
DictsOver(K, W) ==
    UNION {{DictOf(Ascending(S), w) : w \in [S -> W]} : S \in SUBSET K}

\* the dicts a caller hands to Hist(dict) / Pmf(dict): integer weights
DictInputs == DictsOver(Vals, {FromInt(n) : n \in 0..MaxW})

(***************************************************************************)
(* The map constructors as a state machine                                  *)
(***************************************************************************)
NoMap == [kind |-> "none", d |-> <<>>, log |-> FALSE]
NoCall == [op |-> "none", arg |-> <<>>, ok |-> TRUE]

\* Pmf(obj) / Hist(obj) for a dict obj: [ok, m]
PmfFromDict(obj) ==
    LET m == [EmptyMap EXCEPT !.d = obj] IN
    IF Len(m.d) > 0
    THEN LET r == Normalize(m, One) IN [ok |-> r.ok, m |-> r.m]
    ELSE [ok |-> TRUE, m |-> m]

HistFromDict(obj) == [EmptyMap EXCEPT !.d = obj]

Tagged(kind, m) == [kind |-> kind, d |-> m.d, log |-> m.log]

MapIdle == mm = NoMap /\ mop = NoCall

\* Pmf(s), s a raw sequence
NewPmfSeq(s) ==
    /\ mop.op = "none"
    /\ mm' = Tagged("Pmf", PmfFromSeq(s))
    /\ mop' = [op |-> "PmfSeq", arg |-> s, ok |-> TRUE]
    /\ UNCHANGED notMap

\* Hist(s), s a raw sequence
NewHistSeq(s) ==
    /\ mop.op = "none"
    /\ mm' = Tagged("Hist", HistFromSeq(s))
    /\ mop' = [op |-> "HistSeq", arg |-> s, ok |-> TRUE]
    /\ UNCHANGED notMap

\* Pmf(obj), obj a dict: raises when the weights sum to zero
NewPmfDict(obj) ==
    /\ mop.op = "none"
    /\ mm' = IF PmfFromDict(obj).ok THEN Tagged("Pmf", PmfFromDict(obj).m) ELSE mm
    /\ mop' = [op |-> "PmfDict", arg |-> obj, ok |-> PmfFromDict(obj).ok]
    /\ UNCHANGED notMap

\* Hist(obj), obj a dict
NewHistDict(obj) ==
    /\ mop.op = "none"
    /\ mm' = Tagged("Hist", HistFromDict(obj))
    /\ mop' = [op |-> "HistDict", arg |-> obj, ok |-> TRUE]
    /\ UNCHANGED notMap

(***************************************************************************)
(* The Pmf algebra as a state machine                                       *)
(***************************************************************************)
OperandKeys == 0..MaxKey

\* weights of the operands: zero, normalized and unnormalized ones
OperandWeights == {Zero, Rat(1, 2), One, FromInt(2)}

\* the operands: maps a caller builds with Pmf() and Set, keys set in
\* ascending or in descending order
Operands ==
    LET ds == DictsOver(OperandKeys, OperandWeights) IN
    {[EmptyMap EXCEPT !.d = d] : d \in ds \cup {Reverse(d) : d \in ds}}

PmfIdle == pa = EmptyMap /\ pb = EmptyMap /\ pres = EmptyMap /\ pop = "none"

\* res = a + b
DoAddPmf ==
    /\ pres' = AddPmf(pa, pb)
    /\ pop' = "AddPmf"
    /\ UNCHANGED <<pa, pb, notPmf>>

\* res = a - b
DoSubPmf ==
    /\ pres' = SubPmf(pa, pb)
    /\ pop' = "SubPmf"
    /\ UNCHANGED <<pa, pb, notPmf>>

\* res = a * b
DoMulPmf ==
    /\ pres' = MulPmf(pa, pb)
    /\ pop' = "MulPmf"
    /\ UNCHANGED <<pa, pb, notPmf>>

(***************************************************************************)
(* Cdf                                                                      *)
(***************************************************************************)
NoCdf == [xs |-> <<>>, ps |-> <<>>, made |-> FALSE]
NoQuery == [op |-> "none", arg |-> <<>>, ret |-> [err |-> "none", val |-> <<>>]]

CdfIdle == cdf = NoCdf /\ cn = 0 /\ cq = NoQuery

\* sorted(items): insertion of one pair into a list sorted by key
RECURSIVE InsertSorted(_, _)
InsertSorted(sorted, item) ==
    IF sorted = <<>> THEN <<item>>
    ELSE IF item[1] < sorted[1][1] THEN <<item>> \o sorted
    ELSE <<sorted[1]>> \o InsertSorted(Tail(sorted), item)

RECURSIVE SortItems(_)
SortItems(d) ==
    IF d = <<>> THEN <<>>
    ELSE InsertSorted(SortItems(Tail(d)), d[1])

\* np.cumsum
RECURSIVE CumSum(_)
CumSum(ws) ==
    IF ws = <<>> THEN <<>>
    ELSE LET front == CumSum(SubSeq(ws, 1, Len(ws) - 1)) IN
         Append(front, IF front = <<>> THEN ws[Len(ws)]
                       ELSE RAdd(front[Len(front)], ws[Len(ws)]))

\* Cdf(obj) for a Hist or Pmf obj whose weights do not sum to zero
CdfOf(dw) ==
    IF Len(dw.d) = 0 THEN [xs |-> <<>>, ps |-> <<>>, made |-> TRUE]
    ELSE LET items == SortItems(dw.d)
             sums == CumSum([i \in 1..Len(items) |-> items[i][2]])
         IN  [xs |-> [i \in 1..Len(items) |-> items[i][1]],
              ps |-> [i \in 1..Len(sums) |-> RDiv(sums[i], sums[Len(sums)])],
              made |-> TRUE]

\* Cdf.Copy
CdfCopy(c) == [xs |-> c.xs, ps |-> c.ps, made |-> TRUE]

\* Cdf.Shift
CdfShift(c, term) == [CdfCopy(c) EXCEPT !.xs = [i \in 1..Len(c.xs) |-> c.xs[i] + term]]

\* Cdf.Scale
CdfScale(c, factor) == [CdfCopy(c) EXCEPT !.xs = [i \in 1..Len(c.xs) |-> c.xs[i] * factor]]

\* Cdf.Max
CdfMax(c, k) == [CdfCopy(c) EXCEPT !.ps = [i \in 1..Len(c.ps) |-> RPow(c.ps[i], k)]]

\* bisect_left in the place of bisect: the insertion point before equal values
RECURSIVE BisectLeftInt(_, _, _, _)
BisectLeftInt(a, x, lo, hi) ==
    IF lo < hi
    THEN LET mid == (lo + hi) \div 2 IN
         IF a[mid + 1] < x THEN BisectLeftInt(a, x, mid + 1, hi)
         ELSE BisectLeftInt(a, x, lo, mid)
    ELSE lo

\* bisect.bisect(a, x) on a list of values: the loop on lo and hi
RECURSIVE BisectRightInt(_, _, _, _)
BisectRightInt(a, x, lo, hi) ==
    IF lo < hi
    THEN LET mid == (lo + hi) \div 2 IN
         IF x < a[mid + 1] THEN BisectRightInt(a, x, lo, mid)
         ELSE BisectRightInt(a, x, mid + 1, hi)
    ELSE lo

\* bisect in the place of bisect_left: the insertion point after equal values
RECURSIVE BisectRightRat(_, _, _, _)
BisectRightRat(a, x, lo, hi) ==
    IF lo < hi
    THEN LET mid == (lo + hi) \div 2 IN
         IF RLt(x, a[mid + 1]) THEN BisectRightRat(a, x, lo, mid)
         ELSE BisectRightRat(a, x, mid + 1, hi)
    ELSE lo

\* bisect.bisect_left(a, x) on a list of probabilities
RECURSIVE BisectLeftRat(_, _, _, _)
BisectLeftRat(a, x, lo, hi) ==
    IF lo < hi
    THEN LET mid == (lo + hi) \div 2 IN
         IF RLt(a[mid + 1], x) THEN BisectLeftRat(a, x, mid + 1, hi)
         ELSE BisectLeftRat(a, x, lo, mid)
    ELSE lo

\* a[i] in Python: a negative index counts from the end
PyIndex(a, i) ==
    IF i >= Len(a) \/ i < -Len(a) THEN [err |-> "IndexError", val |-> <<>>]
    ELSE IF i < 0 THEN [err |-> "none", val |-> a[Len(a) + i + 1]]
    ELSE [err |-> "none", val |-> a[i + 1]]

\* Cdf.Prob(x)
CdfProb(c, x) ==
    IF Len(c.xs) = 0 THEN [err |-> "IndexError", val |-> <<>>]
    ELSE IF x < c.xs[1] THEN [err |-> "none", val |-> Zero]
    ELSE PyIndex(c.ps, BisectRightInt(c.xs, x, 0, Len(c.xs)) - 1)

\* Cdf.Value(p)
CdfValue(c, p) ==
    IF RLt(p, Zero) \/ RLt(One, p) THEN [err |-> "ValueError", val |-> <<>>]
    ELSE PyIndex(c.xs, BisectLeftRat(c.ps, p, 0, Len(c.ps)))

\* the maps a Cdf is constructed from: weights that do not sum to zero
\* (numpy divides a zero total into NaNs, which the model leaves out)
CdfSources == {d \in DictInputs : d = <<>> \/ Total(d) # Zero}

\* cdf = Cdf(Hist(obj)), by MakeCdf or the constructor
MakeCdfHist(obj) ==
    /\ ~cdf.made
    /\ cdf' = CdfOf(HistFromDict(obj))
    /\ UNCHANGED <<cn, cq, notCdf>>

\* cdf = Cdf(Pmf(obj))
MakeCdfPmf(obj) ==
    /\ ~cdf.made
    /\ cdf' = CdfOf(PmfFromDict(obj).m)
    /\ UNCHANGED <<cn, cq, notCdf>>

\* cdf = Cdf(s), s a raw sequence: dw = Hist(obj)
MakeCdfSeq(s) ==
    /\ ~cdf.made
    /\ cdf' = CdfOf(HistFromSeq(s))
    /\ UNCHANGED <<cn, cq, notCdf>>

\* cdf = cdf.Copy()
DoCopy ==
    /\ cdf.made /\ cn < MaxOps
    /\ cdf' = CdfCopy(cdf)
    /\ cn' = cn + 1
    /\ UNCHANGED <<cq, notCdf>>

\* cdf = cdf.Shift(term)
DoShift(term) ==
    /\ cdf.made /\ cn < MaxOps
    /\ cdf' = CdfShift(cdf, term)
    /\ cn' = cn + 1
    /\ UNCHANGED <<cq, notCdf>>

\* cdf = cdf.Scale(factor)
DoScale(factor) ==
    /\ cdf.made /\ cn < MaxOps
    /\ cdf' = CdfScale(cdf, factor)
    /\ cn' = cn + 1
    /\ UNCHANGED <<cq, notCdf>>

\* cdf = cdf.Max(k)
DoMax(k) ==
    /\ cdf.made /\ cn < MaxOps
    /\ \A i \in 1..Len(cdf.ps) : cdf.ps[i][2] <= DenCap
    /\ cdf' = CdfMax(cdf, k)
    /\ cn' = cn + 1
    /\ UNCHANGED <<cq, notCdf>>

\* cdf.Prob(x)
DoProb(x) ==
    /\ cdf.made
    /\ cq' = [op |-> "Prob", arg |-> x, ret |-> CdfProb(cdf, x)]
    /\ UNCHANGED <<cdf, cn, notCdf>>

\* cdf.Value(p)
DoValue(p) ==
    /\ cdf.made
    /\ cq' = [op |-> "Value", arg |-> p, ret |-> CdfValue(cdf, p)]
    /\ UNCHANGED <<cdf, cn, notCdf>>

Terms == {-1, 1}
Factors == -1..2
ProbArgs == -1..(MaxVal + 1)
ValueArgs == {Rat(-1, 2), Zero, Rat(1, 4), Rat(1, 3), Rat(1, 2), Rat(2, 3),
              Rat(3, 4), One, Rat(3, 2)}

(***************************************************************************)
(* Suite: the sequential Bayesian update                                    *)
(***************************************************************************)
\* the hypotheses of the suite
Hypos == {"H1", "H2"}
HypoOrder == <<"H1", "H2">>

\* the values a likelihood takes
Likes == {Zero, One, FromInt(2)}

\* a datum is known to the suite by the likelihood it gives each hypothesis
Data == [Hypos -> Likes]

\* Suite.Likelihood(data, hypo), as a concrete suite overrides it
Likelihood(data, hypo) == data[hypo]

\* the loop of Update: for hypo in self.Values(): self.Mult(hypo, like)
RECURSIVE MultAll(_, _, _)
MultAll(d, hypos, data) ==
    IF hypos = <<>> THEN d
    ELSE MultAll(Mult(d, hypos[1], Likelihood(data, hypos[1])), Tail(hypos), data)

KeySeq(d) == [i \in 1..Len(d) |-> d[i][1]]

\* Update with the call of Normalize left out
UpdateUnnormalized(s, data) ==
    LET m == [s EXCEPT !.d = MultAll(s.d, KeySeq(s.d), data)] IN
    [ok |-> TRUE, m |-> m, ret |-> Total(m.d)]

\* Suite.Update(data): [ok, m, ret]; when Normalize raises, the weights stay
\* multiplied
Update(s, data) ==
    Normalize([s EXCEPT !.d = MultAll(s.d, KeySeq(s.d), data)], One)

\* the outer loop of UpdateSet: for data in dataset
RECURSIVE MultDataset(_, _)
MultDataset(d, dataset) ==
    IF dataset = <<>> THEN d
    ELSE MultDataset(MultAll(d, KeySeq(d), dataset[1]), Tail(dataset))

\* UpdateSet that multiplies in the last datum only
UpdateSetLastOnly(s, dataset) ==
    IF dataset = <<>> THEN Normalize(s, One)
    ELSE Normalize([s EXCEPT !.d = MultAll(s.d, KeySeq(s.d), dataset[Len(dataset)])], One)

\* Suite.UpdateSet(dataset): [ok, m, ret]
UpdateSet(s, dataset) ==
    Normalize([s EXCEPT !.d = MultDataset(s.d, dataset)], One)

\* MakeSuiteFromDict(d): [ok, m, ret]
MakeSuiteFromDict(d) == Normalize([EmptyMap EXCEPT !.d = d], One)

\* the priors: MakeSuiteFromDict of integer weights that do not sum to zero
Priors ==
    {MakeSuiteFromDict(DictOf(HypoOrder, w)).m :
        w \in {v \in [Hypos -> {FromInt(n) : n \in 0..MaxW}] :
                  \E h \in Hypos : v[h] # Zero}}

NoUpdate == [op |-> "none", data |-> <<>>, pre |-> <<>>, ret |-> <<>>, ok |-> TRUE]
NoUpdateSet == [done |-> FALSE, arg |-> <<>>, ret |-> <<>>, ok |-> TRUE]

SuiteIdle ==
    /\ suite = EmptyMap /\ batch = EmptyMap /\ sdata = <<>> /\ sok = TRUE
    /\ slast = NoUpdate /\ bset = NoUpdateSet

\* suite.Update(data)
DoUpdate(data) ==
    /\ Len(sdata) < MaxUpdates
    /\ suite' = Update(suite, data).m
    /\ sdata' = Append(sdata, data)
    /\ sok' = (sok /\ Update(suite, data).ok)
    /\ slast' = [op |-> "Update", data |-> data, pre |-> suite.d,
                 ret |-> Update(suite, data).ret, ok |-> Update(suite, data).ok]
    /\ UNCHANGED <<batch, bset, notSuite>>

\* batch.UpdateSet(dataset), the dataset being the data handed to Update so far
DoUpdateSet ==
    /\ ~bset.done
    /\ batch' = UpdateSet(batch, sdata).m
    /\ bset' = [done |-> TRUE, arg |-> sdata, ret |-> UpdateSet(batch, sdata).ret,
                ok |-> UpdateSet(batch, sdata).ok]
    /\ UNCHANGED <<suite, sdata, sok, slast, notSuite>>

(***************************************************************************)
(* HypothesisTest: CoinTest and DiffMeansPermute                            *)
(***************************************************************************)
\* the values observed in the two groups of a DiffMeansPermute
Obs == {0, 1}

\* the data of a CoinTest: (heads, tails)
CoinData == {d \in (0..MaxFlips) \X (0..MaxFlips) : d[1] + d[2] <= MaxFlips}

\* the data of a DiffMeansPermute: two non-empty groups, three values in all
\* at most
GroupData ==
    {<<g1, g2>> : g1 \in [1..1 -> Obs], g2 \in [1..1 -> Obs]}
    \cup {<<g1, g2>> : g1 \in [1..2 -> Obs], g2 \in [1..1 -> Obs]}
    \cup {<<g1, g2>> : g1 \in [1..1 -> Obs], g2 \in [1..2 -> Obs]}

NoTest ==
    [made |-> FALSE, kind |-> "none", data |-> <<>>, pool |-> <<>>, n |-> 0, m |-> 0,
     actual |-> Zero, has_stats |-> FALSE, test_stats |-> <<>>,
     test_cdf |-> [xs |-> <<>>, ps |-> <<>>], calls |-> <<>>]

NoReturn == [op |-> "none", arg |-> 0, val |-> <<>>, err |-> "none"]

TestIdle == ht = NoTest /\ hret = NoReturn /\ hpv = FALSE

RAbs(p) == <<Abs(p[1]), p[2]>>

RECURSIVE SumSeq(_)
SumSeq(xs) == IF xs = <<>> THEN 0 ELSE xs[1] + SumSeq(Tail(xs))

\* group.mean()
Mean(xs) == Rat(SumSeq(xs), Len(xs))

\* the statistics without abs(): heads - tails, and the signed difference
TestStatSigned(kind, data) ==
    IF kind = "Coin"
    THEN FromInt(data[1] - data[2])
    ELSE RSub(Mean(data[1]), Mean(data[2]))

\* TestStatistic(data) of CoinTest and of DiffMeansPermute
TestStat(kind, data) ==
    IF kind = "Coin"
    THEN FromInt(Abs(data[1] - data[2]))
    ELSE RAbs(RSub(Mean(data[1]), Mean(data[2])))

\* a hook records its call: its name, what it read and what it returned
Called(o, f, arg, out) ==
    [o EXCEPT !.calls = Append(o.calls, [f |-> f, arg |-> arg, out |-> out])]

\* self.TestStatistic(data): [o, val]
TestStatistic(o, data) ==
    LET val == TestStat(o.kind, data) IN
    [o |-> Called(o, "TestStatistic", data, val), val |-> val]

\* self.MakeModel(): a no-op for CoinTest; DiffMeansPermute pools the two
\* groups of self.data into a new array
MakeModel(o) ==
    IF o.kind = "Coin"
    THEN Called(o, "MakeModel", o.data, <<>>)
    ELSE Called([o EXCEPT !.n = Len(o.data[1]), !.m = Len(o.data[2]),
                          !.pool = o.data[1] \o o.data[2]],
                "MakeModel", o.data, <<>>)

\* HypothesisTest.__init__(data)
Construct(kind, data) ==
    LET o1 == [NoTest EXCEPT !.made = TRUE, !.kind = kind, !.data = data]
        o2 == MakeModel(o1)
        r == TestStatistic(o2, data)
    IN  [r.o EXCEPT !.actual = r.val, !.has_stats = FALSE, !.test_stats = <<>>,
                    !.test_cdf = [xs |-> <<>>, ps |-> <<>>]]

\* the permutations of 1..n
Perms(n) == {f \in [1..n -> 1..n] : \A i, j \in 1..n : f[i] = f[j] => i = j}

\* the outcomes of the random draws of one RunModel call: the number of heads
\* among the n flips, or the order the shuffle leaves the pool in
Choices(o) ==
    IF o.kind = "Coin" THEN 0..(o.data[1] + o.data[2]) ELSE Perms(Len(o.pool))

\* RunModel with the pool being the array of the data itself: the shuffle
\* reorders the stored data
RunModelAliased(o, choice) ==
    IF o.kind = "Coin"
    THEN LET data == <<choice, o.data[1] + o.data[2] - choice>> IN
         [o |-> Called(o, "RunModel", <<>>, data), data |-> data]
    ELSE LET pool == [i \in 1..Len(o.pool) |-> o.pool[choice[i]]]
             data == <<SubSeq(pool, 1, o.n), SubSeq(pool, o.n + 1, Len(pool))>>
         IN  [o |-> Called([o EXCEPT !.pool = pool, !.data = data], "RunModel", <<>>, data),
              data |-> data]

\* self.RunModel(): [o, data]
RunModel(o, choice) ==
    IF o.kind = "Coin"
    THEN LET data == <<choice, o.data[1] + o.data[2] - choice>> IN
         [o |-> Called(o, "RunModel", <<>>, data), data |-> data]
    ELSE LET pool == [i \in 1..Len(o.pool) |-> o.pool[choice[i]]]
             data == <<SubSeq(pool, 1, o.n), SubSeq(pool, o.n + 1, Len(pool))>>
         IN  [o |-> Called([o EXCEPT !.pool = pool], "RunModel", <<>>, data),
              data |-> data]

\* [self.TestStatistic(self.RunModel()) for _ in range(iters)]: [o, stats]
RECURSIVE Simulate(_, _, _)
Simulate(o, stats, choices) ==
    IF choices = <<>> THEN [o |-> o, stats |-> stats]
    ELSE LET r == RunModel(o, choices[1])
             t == TestStatistic(r.o, r.data)
         IN  Simulate(t.o, Append(stats, t.val), Tail(choices))

\* the count with > in the place of >=
RECURSIVE CountGT(_, _)
CountGT(stats, actual) ==
    IF stats = <<>> THEN 0
    ELSE (IF RLt(actual, stats[1]) THEN 1 ELSE 0) + CountGT(Tail(stats), actual)

\* sum(1 for x in self.test_stats if x >= self.actual)
RECURSIVE CountGE(_, _)
CountGE(stats, actual) ==
    IF stats = <<>> THEN 0
    ELSE (IF RLe(actual, stats[1]) THEN 1 ELSE 0) + CountGE(Tail(stats), actual)

\* sorted(items) for keys that are statistics
RECURSIVE InsertSortedRat(_, _)
InsertSortedRat(sorted, item) ==
    IF sorted = <<>> THEN <<item>>
    ELSE IF RLt(item[1], sorted[1][1]) THEN <<item>> \o sorted
    ELSE <<sorted[1]>> \o InsertSortedRat(Tail(sorted), item)

RECURSIVE SortItemsRat(_)
SortItemsRat(d) ==
    IF d = <<>> THEN <<>>
    ELSE InsertSortedRat(SortItemsRat(Tail(d)), d[1])

\* Cdf(self.test_stats)
CdfOfStats(stats) ==
    IF stats = <<>> THEN [xs |-> <<>>, ps |-> <<>>]
    ELSE LET items == SortItemsRat(Counter(stats))
             sums == CumSum([i \in 1..Len(items) |-> items[i][2]])
         IN  [xs |-> [i \in 1..Len(items) |-> items[i][1]],
              ps |-> [i \in 1..Len(sums) |-> RDiv(sums[i], sums[Len(sums)])]]

\* HypothesisTest.PValue(iters): [o, val, err]
PValue(o, choices) ==
    LET sim == Simulate([o EXCEPT !.calls = <<>>], <<>>, choices)
        o2 == [sim.o EXCEPT !.has_stats = TRUE, !.test_stats = sim.stats,
                            !.test_cdf = CdfOfStats(sim.stats)]
        count == CountGE(o2.test_stats, o2.actual)
    IN  IF Len(choices) = 0
        THEN [o |-> o2, val |-> <<>>, err |-> "ZeroDivisionError"]
        ELSE [o |-> o2, val |-> Rat(count, Len(choices)), err |-> "none"]

\* max(self.test_stats)
RECURSIVE MaxOf(_)
MaxOf(stats) ==
    IF Len(stats) = 1 THEN stats[1]
    ELSE LET rest == MaxOf(Tail(stats)) IN
         IF RLt(stats[1], rest) THEN rest ELSE stats[1]

\* HypothesisTest.MaxTestStat(): [val, err]
MaxTestStat(o) ==
    IF ~o.has_stats THEN [val |-> <<>>, err |-> "TypeError"]
    ELSE IF o.test_stats = <<>> THEN [val |-> <<>>, err |-> "ValueError"]
    ELSE [val |-> MaxOf(o.test_stats), err |-> "none"]

\* the iteration counts PValue is called with: every count up to MaxIters on a
\* test that has not run yet, zero or one when it is run again
Iterations(o) == IF o.has_stats THEN 0..1 ELSE 0..MaxIters

\* ht = CoinTest(data)
NewCoinTest(data) ==
    /\ ~ht.made
    /\ ht' = Construct("Coin", data)
    /\ hret' = [op |-> "Construct", arg |-> 0, val |-> <<>>, err |-> "none"]
    /\ UNCHANGED <<hpv, notTest>>

\* ht = DiffMeansPermute(data)
NewDiffMeans(data) ==
    /\ ~ht.made
    /\ ht' = Construct("DiffMeans", data)
    /\ hret' = [op |-> "Construct", arg |-> 0, val |-> <<>>, err |-> "none"]
    /\ UNCHANGED <<hpv, notTest>>

\* ht.PValue(iters), the random draws turning out as choices
DoPValue(choices) ==
    /\ ht.made
    /\ LET r == PValue(ht, choices) IN
           /\ ht' = r.o
           /\ hret' = [op |-> "PValue", arg |-> Len(choices), val |-> r.val, err |-> r.err]
    /\ hpv' = TRUE
    /\ UNCHANGED notTest

\* ht.RunModel()
DoRunModel(choice) ==
    /\ ht.made
    /\ ht' = RunModel([ht EXCEPT !.calls = <<>>], choice).o
    /\ hret' = [op |-> "RunModel", arg |-> 0, val |-> <<>>, err |-> "none"]
    /\ UNCHANGED <<hpv, notTest>>

\* ht.MaxTestStat()
DoMaxTestStat ==
    /\ ht.made
    /\ LET r == MaxTestStat(ht) IN
           hret' = [op |-> "MaxTestStat", arg |-> 0, val |-> r.val, err |-> r.err]
    /\ UNCHANGED <<ht, hpv, notTest>>

(***************************************************************************)
(* The Kaplan-Meier hazard estimator                                        *)
(***************************************************************************)
NoEstimate ==
    [made |-> FALSE, complete |-> <<>>, ongoing |-> <<>>, err |-> "none",
     lams |-> <<>>, risks |-> <<>>, at_risk |-> 0]

HazIdle == hz = NoEstimate

\* the times sorted with the latest first
TimesDescending(hist_complete, hist_ongoing) ==
    Reverse(Ascending(Keys(hist_complete) \cup Keys(hist_ongoing)))

\* list(hist_complete | hist_ongoing); ts.sort()
SortedTimes(hist_complete, hist_ongoing) ==
    Ascending(Keys(hist_complete) \cup Keys(hist_ongoing))

\* the loop of EstimateHazardFunction over ts: e holds lams, the at_risk count
\* each time was processed with (risks) and the running at_risk count
RECURSIVE HazardLoop(_, _, _, _)
HazardLoop(e, ts, hist_complete, hist_ongoing) ==
    IF ts = <<>> \/ e.err # "none" THEN e
    ELSE LET t == ts[1]
             ended == DictGet(hist_complete, t, Zero)
             censored == DictGet(hist_ongoing, t, Zero)
         IN  IF e.at_risk = 0
             THEN [e EXCEPT !.err = "ZeroDivisionError"]
             ELSE HazardLoop(
                    [e EXCEPT !.lams = Append(e.lams, <<t, RDiv(ended, FromInt(e.at_risk))>>),
                              !.risks = Append(e.risks, e.at_risk),
                              !.at_risk = e.at_risk - (ended[1] + censored[1])],
                    Tail(ts), hist_complete, hist_ongoing)

\* EstimateHazardFunction(complete, ongoing), for inputs without NaNs
EstimateHazardFunction(complete, ongoing) ==
    LET hist_complete == Counter(complete)
        hist_ongoing == Counter(ongoing)
        ts == SortedTimes(hist_complete, hist_ongoing)
    IN  HazardLoop([NoEstimate EXCEPT !.made = TRUE, !.complete = complete,
                                      !.ongoing = ongoing,
                                      !.at_risk = Len(complete) + Len(ongoing)],
                   ts, hist_complete, hist_ongoing)

\* hf = EstimateHazardFunction(complete, ongoing)
DoEstimate(complete, ongoing) ==
    /\ ~hz.made
    /\ hz' = EstimateHazardFunction(complete, ongoing)
    /\ UNCHANGED notHaz

(***************************************************************************)
(* HazardFunction and SurvivalFunction                                      *)
(***************************************************************************)
NoHazardFn == [made |-> FALSE, series |-> <<>>]
NoSurvival == [made |-> FALSE, ts |-> <<>>, ss |-> <<>>, err |-> "none"]
NoSurvQuery == [op |-> "none", arg |-> 0, ret |-> [err |-> "none", val |-> Zero]]

SurvIdle == hf = NoHazardFn /\ sf = NoSurvival /\ emp = NoSurvival /\ sq = NoSurvQuery

\* HazardFunction(d): self.series = pd.Series(d), for d with ascending times
HazardFunction(d) == [made |-> TRUE, series |-> d]

\* the running sum in the place of the running product
RECURSIVE CumProdAdds(_)
CumProdAdds(xs) ==
    IF xs = <<>> THEN <<>>
    ELSE LET front == CumProdAdds(SubSeq(xs, 1, Len(xs) - 1)) IN
         Append(front, IF front = <<>> THEN xs[Len(xs)]
                       ELSE RAdd(front[Len(front)], xs[Len(xs)]))

\* Series.cumprod
RECURSIVE CumProd(_)
CumProd(xs) ==
    IF xs = <<>> THEN <<>>
    ELSE LET front == CumProd(SubSeq(xs, 1, Len(xs) - 1)) IN
         Append(front, IF front = <<>> THEN xs[Len(xs)]
                       ELSE RMul(front[Len(front)], xs[Len(xs)]))

\* HazardFunction.MakeSurvival
MakeSurvival(h) ==
    [made |-> TRUE,
     ts |-> [i \in 1..Len(h.series) |-> h.series[i][1]],
     ss |-> CumProd([i \in 1..Len(h.series) |-> RSub(One, h.series[i][2])]),
     err |-> "none"]

\* MakeSurvivalFromSeq without the sort of the counted items
MakeSurvivalFromSeqUnsorted(values) ==
    IF values = <<>> THEN [NoSurvival EXCEPT !.err = "ValueError"]
    ELSE LET items == Counter(values)
             ps == CumSum([i \in 1..Len(items) |-> items[i][2]])
         IN  [made |-> TRUE,
              ts |-> [i \in 1..Len(items) |-> items[i][1]],
              ss |-> [i \in 1..Len(ps) |-> RSub(One, RDiv(ps[i], ps[Len(ps)]))],
              err |-> "none"]

\* MakeSurvivalFromSeq(values); unpacking zip(*[]) raises for an empty sample
MakeSurvivalFromSeq(values) ==
    IF values = <<>> THEN [NoSurvival EXCEPT !.err = "ValueError"]
    ELSE LET items == SortItems(Counter(values))
             ps == CumSum([i \in 1..Len(items) |-> items[i][2]])
         IN  [made |-> TRUE,
              ts |-> [i \in 1..Len(items) |-> items[i][1]],
              ss |-> [i \in 1..Len(ps) |-> RSub(One, RDiv(ps[i], ps[Len(ps)]))],
              err |-> "none"]

\* np.interp(t, ts, ss, left=1.0)
Interp(t, ts, ss) ==
    IF ts = <<>> THEN [err |-> "ValueError", val |-> Zero]
    ELSE IF t < ts[1] THEN [err |-> "none", val |-> One]
    ELSE IF t >= ts[Len(ts)] THEN [err |-> "none", val |-> ss[Len(ss)]]
    ELSE LET i == CHOOSE j \in 1..(Len(ts) - 1) : ts[j] <= t /\ t < ts[j + 1]
             slope == RDiv(RSub(ss[i + 1], ss[i]), FromInt(ts[i + 1] - ts[i]))
         IN  [err |-> "none", val |-> RAdd(ss[i], RMul(slope, FromInt(t - ts[i])))]

\* SurvivalFunction.Prob(t)
SurvProb(s, t) == Interp(t, s.ts, s.ss)

\* the hazards a HazardFunction is built from directly
HazardInputs == DictsOver(Vals, {Zero, Rat(1, 2), One})

\* hf = EstimateHazardFunction(complete, ongoing)
DoEstimateHazard(complete, ongoing) ==
    /\ ~hf.made
    /\ LET e == EstimateHazardFunction(complete, ongoing) IN
           /\ hz' = e
           /\ hf' = HazardFunction(e.lams)
    /\ UNCHANGED <<sf, emp, sq, notSurv>>

\* hf = HazardFunction(d)
NewHazardFunction(d) ==
    /\ ~hf.made
    /\ hf' = HazardFunction(d)
    /\ UNCHANGED <<hz, sf, emp, sq, notSurv>>

\* sf = hf.MakeSurvival()
DoMakeSurvival ==
    /\ hf.made /\ ~sf.made
    /\ sf' = MakeSurvival(hf)
    /\ UNCHANGED <<hz, hf, emp, sq, notSurv>>

\* MakeSurvivalFromSeq(complete), on the complete lifetimes of the estimate
DoMakeSurvivalFromSeq ==
    /\ hz.made /\ ~emp.made /\ emp.err = "none"
    /\ emp' = MakeSurvivalFromSeq(hz.complete)
    /\ UNCHANGED <<hz, hf, sf, sq, notSurv>>

\* sf.Prob(t), or sf[t]
DoSurvProb(t) ==
    /\ sf.made
    /\ sq' = [op |-> "Prob", arg |-> t, ret |-> SurvProb(sf, t)]
    /\ UNCHANGED <<hz, hf, sf, emp, notSurv>>

(***************************************************************************)
(* Methods called on one Hist or Pmf                                        *)
(***************************************************************************)
\* wcall is the last call on the map wm: its name and argument, the map
\* before it, the exception it raised, what it returned, and the last Log or
\* Exp before it that returned normally
NoOp ==
    [op |-> "none", arg |-> <<>>, pre |-> EmptyMap, err |-> "none",
     ret |-> <<>>, prev |-> "none"]

OpIdle == wm = EmptyMap /\ wcall = NoOp

\* The weights are rationals <<n, d>>; the float math.log(n / d) of a
\* rational other than 1 is the triple <<"ln", n, d>>, and math.log(1) is 0.
Ln(r) == <<"ln", r[1], r[2]>>

IsLn(v) == Len(v) = 3

\* math.log(r) for a rational r > 0
MathLog(r) == IF r = One THEN Zero ELSE Ln(r)

\* v is the logarithm of a rational
IsLog(v) == IsLn(v) \/ v = Zero

\* the rational whose logarithm v is
AntiLog(v) == IF IsLn(v) THEN <<v[2], v[3]>> ELSE One

\* a < b for floats that are rationals or logarithms of rationals; a
\* logarithm and a rational are compared by their signs
FloatLt(a, b) ==
    CASE IsLn(a) /\ IsLn(b) -> RLt(AntiLog(a), AntiLog(b))
      [] IsLn(a) /\ ~IsLn(b) -> RLt(AntiLog(a), One) /\ RLe(Zero, b)
      [] ~IsLn(a) /\ IsLn(b) -> RLe(a, Zero) /\ RLt(One, AntiLog(b))
      [] OTHER -> RLt(a, b)

\* max(values): the first largest one
RECURSIVE MaxValue(_)
MaxValue(vs) ==
    IF Len(vs) = 1 THEN vs[1]
    ELSE LET rest == MaxValue(SubSeq(vs, 1, Len(vs) - 1)) IN
         IF FloatLt(rest, vs[Len(vs)]) THEN vs[Len(vs)] ELSE rest

\* _DictWrapper.MaxLike: max(self.d.values()), ValueError on an empty map
MaxLike(d) ==
    IF d = <<>>
    THEN [err |-> "ValueError", val |-> Zero]
    ELSE [err |-> "none", val |-> MaxValue([i \in 1..Len(d) |-> d[i][2]])]

\* the loop of Log, for x, p in self.d.items(), from position i on: a
\* positive weight is replaced in place; a zero weight is removed, and the
\* iterator then finds the dict changed size and raises RuntimeError
RECURSIVE LogLoop(_, _, _)
LogLoop(d, i, m) ==
    IF i > Len(d) THEN [err |-> "none", d |-> d]
    ELSE IF d[i][2] # Zero
         THEN LogLoop(Set(d, d[i][1], MathLog(RDiv(d[i][2], m))), i + 1, m)
         ELSE [err |-> "RuntimeError", d |-> Remove(d, d[i][1])]

\* _DictWrapper.Log() on object w: [err, m]
Log(w) ==
    IF w.log THEN [err |-> "ValueError", m |-> w]
    ELSE LET flagged == [w EXCEPT !.log = TRUE]
             ml == MaxLike(w.d) IN
         IF ml.err # "none" THEN [err |-> ml.err, m |-> flagged]
         ELSE LET r == LogLoop(w.d, 1, ml.val) IN
              [err |-> r.err, m |-> [flagged EXCEPT !.d = r.d]]

\* math.exp(p - m) is a rational when p = m or when both are logarithms
Representable(p, m) == p = m \/ (IsLog(p) /\ IsLog(m))

\* math.exp(p - m)
MathExp(p, m) == IF p = m THEN One ELSE RDiv(AntiLog(p), AntiLog(m))

\* _DictWrapper.Exp() on object w: [err, m]
Exp(w) ==
    IF ~w.log THEN [err |-> "ValueError", m |-> w]
    ELSE LET cleared == [w EXCEPT !.log = FALSE]
             ml == MaxLike(w.d) IN
         IF ml.err # "none" THEN [err |-> ml.err, m |-> cleared]
         ELSE [err |-> "none",
               m |-> [cleared EXCEPT !.d = [i \in 1..Len(w.d) |->
                         <<w.d[i][1], MathExp(w.d[i][2], ml.val)>>]]]

\* every value Exp() computes on w is a rational
ExpRepresentable(w) ==
    \A i \in 1..Len(w.d) : Representable(w.d[i][2], MaxLike(w.d).val)

\* the last Log or Exp that returned normally, after call op ended with err
LastTransform(op, err) == IF err = "none" THEN op ELSE wcall.prev

\* the fractions handed to Normalize
Fractions == {Zero, Rat(1, 2), One, FromInt(2)}

\* total = wm.Normalize(fraction)
DoNormalize(fraction) ==
    LET r == Normalize(wm, fraction) IN
    /\ wm' = r.m
    /\ wcall' = [op |-> "Normalize", arg |-> fraction, pre |-> wm,
                 err |-> IF r.ok THEN "none" ELSE r.ret,
                 ret |-> IF r.ok THEN r.ret ELSE <<>>,
                 prev |-> wcall.prev]
    /\ UNCHANGED notOp

\* wm.Log()
DoLog ==
    LET r == Log(wm) IN
    /\ wm' = r.m
    /\ wcall' = [op |-> "Log", arg |-> <<>>, pre |-> wm, err |-> r.err,
                 ret |-> <<>>, prev |-> LastTransform("Log", r.err)]
    /\ UNCHANGED notOp

\* wm.Exp(); the calls whose values leave the rationals are not followed
DoExp ==
    /\ ExpRepresentable(wm)
    /\ LET r == Exp(wm) IN
       /\ wm' = r.m
       /\ wcall' = [op |-> "Exp", arg |-> <<>>, pre |-> wm, err |-> r.err,
                    ret |-> <<>>, prev |-> LastTransform("Exp", r.err)]
    /\ UNCHANGED notOp

(***************************************************************************)
(* A Pmf and a scalar: A + c, A - c, A * c, A / c, Scale(factor)            *)
(***************************************************************************)
\* the key a loop sets for the value v1: v1 + other in AddConstant,
\* v1 * other in MulConstant and Scale; other is an int, or the float 1 / c
\* that __div__ hands to MulConstant, which makes the key a rational
ConstKey(op, v1, other) ==
    CASE op = "add" -> v1 + other
      [] op = "mul" -> v1 * other
      [] op = "mulf" -> RMul(FromInt(v1), other)

\* for v1, p1 in self.Items(): pmf.Set(key, p1)
RECURSIVE ConstLoop(_, _, _, _)
ConstLoop(acc, items, op, other) ==
    IF items = <<>> THEN acc
    ELSE ConstLoop(Set(acc, ConstKey(op, items[1][1], other), items[1][2]),
                   Tail(items), op, other)

\* _DictWrapper.Copy: the same flag and a copy of the dict
Copy(w) == [d |-> w.d, log |-> w.log]

\* Pmf.AddConstant(other)
AddConstant(w, other) ==
    IF other = 0 THEN Copy(w)
    ELSE [EmptyMap EXCEPT !.d = ConstLoop(<<>>, w.d, "add", other)]

\* Pmf.MulConstant(other) for an int
MulConstant(w, other) == [EmptyMap EXCEPT !.d = ConstLoop(<<>>, w.d, "mul", other)]

\* Pmf.MulConstant(other) for the float 1 / c
MulConstantFloat(w, other) ==
    [EmptyMap EXCEPT !.d = ConstLoop(<<>>, w.d, "mulf", other)]

\* _DictWrapper.Scale(factor): a copy, cleared, then filled by the loop
Scale(w, factor) == [Copy(w) EXCEPT !.d = ConstLoop(<<>>, w.d, "mul", factor)]

\* self.AddPmf(other) and its like on a scalar: the inner loop's
\* other.Items() raises AttributeError, unless self has no entries and the
\* loops return the empty Pmf
PmfOpOnScalar(w) ==
    IF w.d = <<>> THEN [err |-> "none", m |-> EmptyMap]
    ELSE [err |-> "AttributeError", m |-> EmptyMap]

\* Pmf.__add__(other) for a scalar: [err, m]
AddScalar(w, other) ==
    LET r == PmfOpOnScalar(w) IN
    IF r.err = "none" THEN r ELSE [err |-> "none", m |-> AddConstant(w, other)]

\* Pmf.__sub__(other) for a scalar
SubScalar(w, other) ==
    LET r == PmfOpOnScalar(w) IN
    IF r.err = "none" THEN r ELSE [err |-> "none", m |-> AddConstant(w, -other)]

\* Pmf.__mul__(other) for a scalar
MulScalar(w, other) ==
    LET r == PmfOpOnScalar(w) IN
    IF r.err = "none" THEN r ELSE [err |-> "none", m |-> MulConstant(w, other)]

\* Pmf.__div__(other) for a scalar: 1 / other raises on zero
DivScalar(w, other) ==
    LET r == PmfOpOnScalar(w) IN
    IF r.err = "none" THEN r
    ELSE IF other = 0 THEN [err |-> "ZeroDivisionError", m |-> EmptyMap]
    ELSE [err |-> "none", m |-> MulConstantFloat(w, RDiv(One, FromInt(other)))]

\* the scalars
Scalars == -1..MaxKey + 1

\* res = wm OP c (Scale for wm.Scale(c)); wcall.ret is res
ScalarCall(op, c, r) ==
    /\ wcall' = [op |-> op, arg |-> c, pre |-> wm, err |-> r.err,
                 ret |-> r.m, prev |-> wcall.prev]
    /\ UNCHANGED <<wm, notOp>>

DoAddScalar(c) == ScalarCall("add", c, AddScalar(wm, c))

DoSubScalar(c) == ScalarCall("sub", c, SubScalar(wm, c))

DoMulScalar(c) == ScalarCall("mul", c, MulScalar(wm, c))

DoDivScalar(c) == ScalarCall("div", c, DivScalar(wm, c))

DoScaleValues(factor) ==
    ScalarCall("Scale", factor, [err |-> "none", m |-> Scale(wm, factor)])

(***************************************************************************)
(* Pmf.Percentile and Pmf.Random                                            *)
(***************************************************************************)
\* what a call returns: a value, or None (some is false)
Returned(v) == [err |-> "none", some |-> TRUE, val |-> v]
ReturnedNone == [err |-> "none", some |-> FALSE, val |-> 0]
RaisedError(e) == [err |-> e, some |-> FALSE, val |-> 0]

\* the loop of Percentile and Random with > in the place of >=
RECURSIVE WalkStrict(_, _, _)
WalkStrict(items, total, target) ==
    IF items = <<>> THEN ReturnedNone
    ELSE LET sum == RAdd(total, items[1][2]) IN
         IF RLt(target, sum) THEN Returned(items[1][1])
         ELSE WalkStrict(Tail(items), sum, target)

\* for val, prob in items: total += prob; if total >= target: return val
\* (falling off the end of the loop is ReturnedNone)
RECURSIVE Walk(_, _, _)
Walk(items, total, target) ==
    IF items = <<>> THEN ReturnedNone
    ELSE LET sum == RAdd(total, items[1][2]) IN
         IF RLe(target, sum) THEN Returned(items[1][1])
         ELSE Walk(Tail(items), sum, target)

\* Pmf.Percentile(percentage): the walk over sorted(self.Items()); the
\* method returns None when the loop ends
PmfPercentile(w, percentage) == Walk(SortItems(w.d), Zero, Rat(percentage, 100))

\* Cdf.Percentile(p) on self.MakeCdf(); numpy turns a zero total into NaNs
CdfPercentile(w, p) ==
    IF w.d # <<>> /\ Total(w.d) = Zero THEN RaisedError("NaN")
    ELSE LET r == CdfValue(CdfOf(w), Rat(p, 100)) IN
         IF r.err = "none" THEN Returned(r.val) ELSE RaisedError(r.err)

\* Pmf.Random() when random.random() gives target: the walk over
\* self.d.items(), and ValueError after the loop
Random(w, target) ==
    LET r == Walk(w.d, Zero, target) IN
    IF r.some THEN r ELSE RaisedError("ValueError")

\* the maps: weights of either sign, keys set in either order
DrawWeights == OperandWeights \cup {Rat(-1, 2)}

DrawMaps ==
    LET ds == DictsOver(OperandKeys, DrawWeights) IN
    {[EmptyMap EXCEPT !.d = d] : d \in ds \cup {Reverse(d) : d \in ds}}

\* percentages in 0..100
Percentages == {0, 25, 50, 75, 100}

\* values of random.random(), which lie in [0, 1)
Draws == {Zero, Rat(1, 4), Rat(1, 2), Rat(3, 4)}

\* a = wm.Percentile(q); b = wm.MakeCdf().Percentile(q)
DoPercentile(q) ==
    /\ wcall' = [op |-> "Percentile", arg |-> q, pre |-> wm, err |-> "none",
                 ret |-> [pmf |-> PmfPercentile(wm, q), cdf |-> CdfPercentile(wm, q)],
                 prev |-> wcall.prev]
    /\ UNCHANGED <<wm, notOp>>

\* x = wm.Random(), the generator giving target
DoRandom(target) ==
    LET r == Random(wm, target) IN
    /\ wcall' = [op |-> "Random", arg |-> target, pre |-> wm, err |-> r.err,
                 ret |-> r, prev |-> wcall.prev]
    /\ UNCHANGED <<wm, notOp>>

(***************************************************************************)
(* Derived structures and the dicts and arrays they hold                    *)
(***************************************************************************)
\* an object holds addresses: of its dict d, or of its arrays xs and ps
NoObject == [kind |-> "none", d |-> 0, xs |-> 0, ps |-> 0, log |-> FALSE]
NoFrame == [op |-> "none", arg |-> 0, who |-> "none", n |-> 0, src |-> <<>>, der |-> <<>>]

HeapIdle == heap = <<>> /\ src = NoObject /\ der = NoObject /\ frame = NoFrame

MapKinds == {"Hist", "Pmf", "Suite", "dict"}

MapObject(kind, addr) == [NoObject EXCEPT !.kind = kind, !.d = addr]
CdfObject(xs, ps) == [NoObject EXCEPT !.kind = "Cdf", !.xs = xs, !.ps = ps]

\* what object o holds in heap h: its dict, or its two arrays
Contents(h, o) ==
    IF o.kind = "Cdf" THEN <<h[o.xs], h[o.ps]>>
    ELSE IF o.kind = "none" THEN <<>>
    ELSE h[o.d]

\* the result of a derivation: whether it returned, the heap it left, the object
Built(h, o) == [ok |-> TRUE, heap |-> h, obj |-> o]
Raised(h) == [ok |-> FALSE, heap |-> h, obj |-> NoObject]

\* _DictWrapper.Copy: new.d = copy.copy(self.d)
HeapCopy(h, o) == Built(Append(h, h[o.d]), [o EXCEPT !.d = Len(h) + 1])

\* the loop of Scale: new.Set(val * factor, prob)
RECURSIVE ScaleItems(_, _, _)
ScaleItems(d, items, factor) ==
    IF items = <<>> THEN d
    ELSE ScaleItems(Set(d, items[1][1] * factor, items[1][2]), Tail(items), factor)

\* _DictWrapper.Scale(factor)
HeapScale(h, o, factor) ==
    LET c == HeapCopy(h, o)
        cleared == [c.heap EXCEPT ![c.obj.d] = <<>>]
    IN  Built([cleared EXCEPT ![c.obj.d] = ScaleItems(<<>>, cleared[o.d], factor)], c.obj)

\* Cdf(xs, ps) for lists xs and ps: np.asarray makes new arrays
HeapCdf(h, xs, ps) == Built(h \o <<xs, ps>>, CdfObject(Len(h) + 1, Len(h) + 2))

\* _DictWrapper.MakeCdf: Cdf(self)
HeapMakeCdf(h, o) ==
    LET c == CdfOf([d |-> h[o.d], log |-> o.log]) IN HeapCdf(h, c.xs, c.ps)

\* Cdf.Copy: Cdf(list(self.xs), list(self.ps))
HeapCdfCopy(h, c) == HeapCdf(h, h[c.xs], h[c.ps])

\* Cdf.Shift: new.xs = new.xs + term, a new array
HeapCdfShift(h, c, term) ==
    LET new == HeapCdfCopy(h, c) IN
    Built(Append(new.heap, [i \in 1..Len(h[c.xs]) |-> new.heap[new.obj.xs][i] + term]),
          [new.obj EXCEPT !.xs = Len(new.heap) + 1])

\* Cdf.Scale: new.xs = new.xs * factor, a new array
HeapCdfScale(h, c, factor) ==
    LET new == HeapCdfCopy(h, c) IN
    Built(Append(new.heap, [i \in 1..Len(h[c.xs]) |-> new.heap[new.obj.xs][i] * factor]),
          [new.obj EXCEPT !.xs = Len(new.heap) + 1])

\* Cdf.Max with cdf = self in the place of cdf = self.Copy()
HeapCdfMaxInPlace(h, c, k) ==
    Built([h EXCEPT ![c.ps] = [i \in 1..Len(@) |-> RPow(@[i], k)]], c)

\* Cdf.Max: cdf.ps **= k, in place on the copy
HeapCdfMax(h, c, k) ==
    LET new == HeapCdfCopy(h, c) IN
    Built([new.heap EXCEPT ![new.obj.ps] = [i \in 1..Len(@) |-> RPow(@[i], k)]], new.obj)

\* Pmf.Max: cdf = self.MakeCdf(); cdf.ps **= k
HeapPmfMax(h, o, k) ==
    LET made == HeapMakeCdf(h, o) IN
    Built([made.heap EXCEPT ![made.obj.ps] = [i \in 1..Len(@) |-> RPow(@[i], k)]],
          made.obj)

\* Cdf.Items: zip(self.xs, a - b), b being a rolled by one with b[0] = 0
CdfItems(xs, ps) ==
    [i \in 1..Len(xs) |-> <<xs[i], IF i = 1 THEN ps[1] ELSE RSub(ps[i], ps[i - 1])>>]

\* self.d.update(items)
RECURSIVE DictUpdate(_, _)
DictUpdate(d, items) ==
    IF items = <<>> THEN d
    ELSE DictUpdate(DictSet(d, items[1][1], items[1][2]), Tail(items))

\* Cdf.MakePmf: Pmf(self)
HeapCdfMakePmf(h, c) ==
    LET m == [EmptyMap EXCEPT !.d = DictUpdate(<<>>, CdfItems(h[c.xs], h[c.ps]))]
        n == IF Len(m.d) > 0 THEN Normalize(m, One).m ELSE m
    IN  Built(Append(h, n.d), MapObject("Pmf", Len(h) + 1))

\* MakeSuiteFromDict(d): suite.SetDict(d) stores d itself, Normalize works on it
HeapSuiteFromDict(h, addr) ==
    LET empty == Append(h, <<>>)
        r == Normalize([d |-> empty[addr], log |-> FALSE], One)
    IN  IF r.ok THEN Built([empty EXCEPT ![addr] = r.m.d], MapObject("Suite", addr))
        ELSE Raised(empty)

\* MakeSuiteFromHist(hist): d = dict(hist.GetDict()), a copy
HeapSuiteFromHist(h, o) == HeapSuiteFromDict(Append(h, h[o.d]), Len(h) + 1)

\* the dicts the source objects are built from
SourceKeys == 0..1
SourceDicts == DictsOver(SourceKeys, {One, FromInt(2)})

\* src = Hist(d), Pmf(d) or the dict d itself
NewSourceMap(kind, d) ==
    /\ src.kind = "none"
    /\ heap' = <<IF kind = "Pmf" /\ Len(d) > 0
                 THEN Normalize([EmptyMap EXCEPT !.d = d], One).m.d ELSE d>>
    /\ src' = MapObject(kind, 1)
    /\ UNCHANGED <<der, frame, notHeap>>

\* src = Cdf(Hist(d))
NewSourceCdf(d) ==
    /\ src.kind = "none"
    /\ LET r == HeapMakeCdf(<<d>>, MapObject("Hist", 1)) IN
           /\ heap' = r.heap
           /\ src' = r.obj
    /\ UNCHANGED <<der, frame, notHeap>>

\* der = the structure that call op(arg) derived from src, with result r
DeriveWith(op, arg, r) ==
    /\ der.kind = "none" /\ frame.op = "none"
    /\ heap' = r.heap
    /\ der' = r.obj
    /\ frame' = [op |-> op, arg |-> arg, who |-> "none", n |-> 0,
                 src |-> Contents(heap, src), der |-> Contents(r.heap, r.obj)]
    /\ UNCHANGED <<src, notHeap>>

Derive(op, r) == DeriveWith(op, 0, r)

DoCopyMap == src.kind \in {"Hist", "Pmf"} /\ Derive("Copy", HeapCopy(heap, src))

DoScaleMap(factor) ==
    src.kind \in {"Hist", "Pmf"} /\ DeriveWith("Scale", factor, HeapScale(heap, src, factor))

DoMakeCdf == src.kind \in {"Hist", "Pmf"} /\ Derive("MakeCdf", HeapMakeCdf(heap, src))

DoPmfMax(k) == src.kind = "Pmf" /\ DeriveWith("Pmf.Max", k, HeapPmfMax(heap, src, k))

DoSuiteFromHist ==
    src.kind = "Hist" /\ Derive("MakeSuiteFromHist", HeapSuiteFromHist(heap, src))

DoSuiteFromDict ==
    src.kind = "dict" /\ Derive("MakeSuiteFromDict", HeapSuiteFromDict(heap, src.d))

DoCdfCopy == src.kind = "Cdf" /\ Derive("Cdf.Copy", HeapCdfCopy(heap, src))

DoCdfShift(term) == src.kind = "Cdf" /\ Derive("Cdf.Shift", HeapCdfShift(heap, src, term))

DoCdfScale(factor) ==
    src.kind = "Cdf" /\ DeriveWith("Cdf.Scale", factor, HeapCdfScale(heap, src, factor))

DoCdfMax(k) == src.kind = "Cdf" /\ DeriveWith("Cdf.Max", k, HeapCdfMax(heap, src, k))

DoCdfMakePmf == src.kind = "Cdf" /\ Derive("MakePmf", HeapCdfMakePmf(heap, src))

\* the object a mutation is applied to
Target(who) == IF who = "src" THEN src ELSE der

\* the dict of Target(who) becomes c
Mutate(who, kinds, c) ==
    /\ der.kind # "none" /\ frame.n < MaxMutations
    /\ Target(who).kind \in kinds
    /\ heap' = [heap EXCEPT ![Target(who).d] = c]
    /\ frame' = [frame EXCEPT !.who = who, !.n = @ + 1, ![who] = c]
    /\ UNCHANGED <<src, der, notHeap>>

\* the dict of Target(who), or the empty dict when it holds none
DictAt(who) == IF Target(who).kind \in MapKinds THEN heap[Target(who).d] ELSE <<>>

MutSet(who, x, y) == Mutate(who, MapKinds, Set(DictAt(who), x, y))

MutIncr(who, x, term) == Mutate(who, MapKinds \ {"dict"}, Incr(DictAt(who), x, term))

MutMult(who, x, factor) == Mutate(who, MapKinds \ {"dict"}, Mult(DictAt(who), x, factor))

MutRemove(who, x) ==
    HasKey(DictAt(who), x) /\ Mutate(who, MapKinds, Remove(DictAt(who), x))

MutNormalize(who) ==
    /\ Target(who).kind \in {"Pmf", "Suite"}
    /\ LET r == Normalize([EmptyMap EXCEPT !.d = DictAt(who)], One) IN
           r.ok /\ Mutate(who, {"Pmf", "Suite"}, r.m.d)

MutUpdate(who, data) ==
    /\ Target(who).kind = "Suite"
    /\ LET r == Update([EmptyMap EXCEPT !.d = DictAt(who)], data) IN
           r.ok /\ Mutate(who, {"Suite"}, r.m.d)

(***************************************************************************)
(* Suite.MakeOdds and Suite.MakeProbs                                       *)
(***************************************************************************)
\* the floats that are no rationals: float("inf") and NaN
Inf == <<"inf", 0, 0>>
NaN == <<"nan", 0, 0>>

IsRational(v) == Len(v) = 2

\* Odds(p): inf for p == 1, else p / (1 - p); inf / -inf and NaN give NaN
Odds(p) ==
    IF ~IsRational(p) THEN [err |-> "none", val |-> NaN]
    ELSE IF p = One THEN [err |-> "none", val |-> Inf]
    ELSE [err |-> "none", val |-> RDiv(p, RSub(One, p))]

\* Probability(o): o / (o + 1); inf / inf and NaN give NaN, o = -1 divides
\* by zero
Probability(o) ==
    IF ~IsRational(o) THEN [err |-> "none", val |-> NaN]
    ELSE IF o = FromInt(-1) THEN [err |-> "ZeroDivisionError", val |-> NaN]
    ELSE [err |-> "none", val |-> RDiv(o, RAdd(o, One))]

\* the loop of MakeOdds, for hypo, prob in self.Items(), from position i on:
\* a zero probability is removed, and the iterator then finds the dict
\* changed size and raises RuntimeError
RECURSIVE OddsLoop(_, _)
OddsLoop(d, i) ==
    IF i > Len(d) THEN [err |-> "none", d |-> d]
    ELSE IF d[i][2] # Zero
         THEN LET o == Odds(d[i][2]) IN
              IF o.err # "none" THEN [err |-> o.err, d |-> d]
              ELSE OddsLoop(Set(d, d[i][1], o.val), i + 1)
         ELSE [err |-> "RuntimeError", d |-> Remove(d, d[i][1])]

\* Suite.MakeOdds() on object w: [err, m]
MakeOdds(w) ==
    LET r == OddsLoop(w.d, 1) IN [err |-> r.err, m |-> [w EXCEPT !.d = r.d]]

\* the loop of MakeProbs from position i on
RECURSIVE ProbsLoop(_, _)
ProbsLoop(d, i) ==
    IF i > Len(d) THEN [err |-> "none", d |-> d]
    ELSE LET p == Probability(d[i][2]) IN
         IF p.err # "none" THEN [err |-> p.err, d |-> d]
         ELSE ProbsLoop(Set(d, d[i][1], p.val), i + 1)

\* Suite.MakeProbs() on object w: [err, m]
MakeProbs(w) ==
    LET r == ProbsLoop(w.d, 1) IN [err |-> r.err, m |-> [w EXCEPT !.d = r.d]]

\* every weight of d is inf, NaN, or a rational within OddsCap
WithinOddsCap(d) ==
    \A i \in 1..Len(d) :
        IsRational(d[i][2]) => Abs(d[i][2][1]) <= OddsCap /\ d[i][2][2] <= OddsCap

\* the call before this one: its name, the map before it, its exception
Before == [op |-> wcall.op, pre |-> wcall.pre, err |-> wcall.err]

\* wm.MakeOdds(); it returns None, and ret records the call before it
DoMakeOdds ==
    /\ WithinOddsCap(wm.d)
    /\ LET r == MakeOdds(wm) IN
       /\ wm' = r.m
       /\ wcall' = [op |-> "MakeOdds", arg |-> <<>>, pre |-> wm, err |-> r.err,
                    ret |-> Before, prev |-> wcall.prev]
    /\ UNCHANGED notOp

\* wm.MakeProbs()
DoMakeProbs ==
    /\ WithinOddsCap(wm.d)
    /\ LET r == MakeProbs(wm) IN
       /\ wm' = r.m
       /\ wcall' = [op |-> "MakeProbs", arg |-> <<>>, pre |-> wm, err |-> r.err,
                    ret |-> Before, prev |-> wcall.prev]
    /\ UNCHANGED notOp

\* the suites: probabilities in [0, 1], hypotheses set in either order
Probabilities == {Zero, Rat(1, 4), Rat(1, 2), One}

ProbSuites ==
    LET ds == DictsOver(OperandKeys, Probabilities) IN
    {[EmptyMap EXCEPT !.d = d] : d \in ds \cup {Reverse(d) : d \in ds}}

(***************************************************************************)
(* HazardFunction.Extend and HazardFunction.Truncate                        *)
(***************************************************************************)
\* self.series.index[-1] if len(self) else 0
LastIndex(h) == IF Len(h.series) > 0 THEN h.series[Len(h.series)][1] ELSE 0

\* HazardFunction.Extend(other): the boolean mask makes a new Series of the
\* entries of other beyond last_index, pd.concat a new Series for self;
\* [self, other]
Extend(h, other) ==
    LET last_index == LastIndex(h)
        more == SelectSeq(other.series, LAMBDA item : item[1] > last_index)
    IN  [self |-> [h EXCEPT !.series = h.series \o more], other |-> other]

\* Truncate that keeps the entry at t itself
TruncateInclusive(h, t) ==
    [h EXCEPT !.series = SelectSeq(h.series, LAMBDA item : item[1] <= t)]

\* HazardFunction.Truncate(t)
Truncate(h, t) ==
    [h EXCEPT !.series = SelectSeq(h.series, LAMBDA item : item[1] < t)]

\* the hazard functions the calls start from, and the ones handed to Extend
\* (told apart by their hazards)
SelfHazards == {HazardFunction(d) : d \in DictsOver(Vals, {Rat(1, 2), One})}
OtherHazards == {HazardFunction(d) : d \in DictsOver(Vals, {Rat(1, 4)})}

\* the times handed to Truncate
TruncateTimes == 0..MaxVal + 1

\* hf.Extend(other); sq keeps hf and other as they were, and other afterwards
DoExtend(other) ==
    LET r == Extend(hf, other) IN
    /\ hf' = r.self
    /\ sq' = [op |-> "Extend", arg |-> [pre |-> hf, other |-> other],
              ret |-> [err |-> "none", val |-> r.other]]
    /\ UNCHANGED <<hz, sf, emp, notSurv>>

\* hf.Truncate(t)
DoTruncate(t) ==
    /\ hf' = Truncate(hf, t)
    /\ sq' = [op |-> "Truncate", arg |-> [pre |-> hf, t |-> t],
              ret |-> [err |-> "none", val |-> <<>>]]
    /\ UNCHANGED <<hz, sf, emp, notSurv>>

(***************************************************************************)
(* SurvivalFunction.MakePmf and RemainingLifetime                           *)
(***************************************************************************)
\* Cdf.Items on Cdf(xs, ps): the pairs (xs[i], ps[i] - ps[i - 1]); b[0] = 0
\* raises IndexError on an empty array
CdfItemsOf(xs, ps) ==
    IF Len(ps) = 0 THEN [err |-> "IndexError", items |-> <<>>]
    ELSE [err |-> "none",
          items |-> [i \in 1..Len(xs) |->
                       <<xs[i], IF i = 1 THEN ps[1] ELSE RSub(ps[i], ps[i - 1])>>]]

\* for val, prob in items: pmf.Set(val, prob)
RECURSIVE SetAll(_, _)
SetAll(d, items) ==
    IF items = <<>> THEN d ELSE SetAll(Set(d, items[1][1], items[1][2]), Tail(items))

\* SurvivalFunction.MakePmf(filler=None): [err, m]
SurvMakePmf(s) ==
    LET r == CdfItemsOf(s.ts, [i \in 1..Len(s.ss) |-> RSub(One, s.ss[i])]) IN
    IF r.err # "none" THEN [err |-> r.err, m |-> EmptyMap]
    ELSE [err |-> "none", m |-> [EmptyMap EXCEPT !.d = SetAll(<<>>, r.items)]]

\* Pmf.Mean: sum(p * x for x, p in self.Items())
RECURSIVE PmfMean(_)
PmfMean(d) ==
    IF d = <<>> THEN Zero
    ELSE RAdd(PmfMean(SubSeq(d, 1, Len(d) - 1)),
              RMul(d[Len(d)][2], FromInt(d[Len(d)][1])))

\* the loop of RemainingLifetime: pmf[t] = 0; pmf.Normalize();
\* d[t] = func(pmf) - t, with func = Pmf.Mean
RECURSIVE LifetimeLoop(_, _, _)
LifetimeLoop(m, ts, out) ==
    IF ts = <<>> THEN [err |-> "none", d |-> out]
    ELSE LET r == Normalize([m EXCEPT !.d = Set(m.d, ts[1], Zero)], One) IN
         IF ~r.ok THEN [err |-> r.ret, d |-> out]
         ELSE LifetimeLoop(r.m, Tail(ts),
                           Set(out, ts[1], RSub(PmfMean(r.m.d), FromInt(ts[1]))))

\* SurvivalFunction.RemainingLifetime(): [err, d]
RemainingLifetime(s) ==
    LET pmf == SurvMakePmf(s) IN
    IF pmf.err # "none" THEN [err |-> pmf.err, d |-> <<>>]
    ELSE LET ts == Ascending(Keys(pmf.m.d)) IN
         LifetimeLoop(pmf.m, SubSeq(ts, 1, Len(ts) - 1), <<>>)

\* sf.RemainingLifetime()
DoRemainingLifetime ==
    /\ sf.made
    /\ LET r == RemainingLifetime(sf) IN
       sq' = [op |-> "RemainingLifetime", arg |-> 0,
              ret |-> [err |-> r.err, val |-> r.d]]
    /\ UNCHANGED <<hz, hf, sf, emp, notSurv>>

(***************************************************************************)
(* SurvivalFunction.MakeHazardFunction                                      *)
(***************************************************************************)
\* the loop of MakeHazardFunction without prev = s
RECURSIVE HazardsFromStart(_, _, _)
HazardsFromStart(ts, ss, prev) ==
    IF ts = <<>> THEN <<>>
    ELSE <<<<ts[1], IF prev = Zero THEN NaN
                    ELSE RDiv(RSub(prev, ss[1]), prev)>>>>
         \o HazardsFromStart(Tail(ts), Tail(ss), prev)

\* the loop of MakeHazardFunction: lams[t] = (prev - s) / prev; prev = s.
\* prev is a numpy float after the first step, so 0 / 0 is nan
RECURSIVE HazardsFrom(_, _, _)
HazardsFrom(ts, ss, prev) ==
    IF ts = <<>> THEN <<>>
    ELSE <<<<ts[1], IF prev = Zero THEN NaN
                    ELSE RDiv(RSub(prev, ss[1]), prev)>>>>
         \o HazardsFrom(Tail(ts), Tail(ss), ss[1])

\* SurvivalFunction.MakeHazardFunction
MakeHazardFunction(s) == HazardFunction(HazardsFrom(s.ts, s.ss, One))

\* the hazards the round trip starts from
RoundTripHazards == DictsOver(Vals, {Zero, Rat(1, 4), Rat(1, 2), One})

\* sf.MakeHazardFunction()
DoMakeHazardFunction ==
    /\ sf.made
    /\ sq' = [op |-> "MakeHazardFunction", arg |-> 0,
              ret |-> [err |-> "none", val |-> MakeHazardFunction(sf).series]]
    /\ UNCHANGED <<hz, hf, sf, emp, notSurv>>

(***************************************************************************)
(* Calls on a SurvivalFunction                                              *)
(***************************************************************************)
\* the methods class SurvivalFunction defines (it has no base class but object)
SurvivalMethods ==
    {"__init__", "__len__", "__getitem__", "Prob", "Probs", "Items", "Render",
     "MakeHazardFunction", "MakePmf", "RemainingLifetime"}

\* sf.Copy() and sf.Scale(factor): the attribute lookup of a name the class
\* does not define raises AttributeError
DoSurvivalCall(name, arg) ==
    /\ sf.made
    /\ name \notin SurvivalMethods
    /\ sq' = [op |-> name, arg |-> arg,
              ret |-> [err |-> "AttributeError", val |-> Zero]]
    /\ UNCHANGED <<hz, hf, sf, emp, notSurv>>

\* the hazards the copied survival functions are made from
CopyHazards == DictsOver(Vals, {Rat(1, 2)})

\* the dicts the distributions of Max are built from; {1: 1, 2: 1, 3: 1} is
\* the uniform distribution over {1, 2, 3}
MaxDicts == DictsOver(1..3, {One, FromInt(2)})

\* the numbers of selections handed to Max
Selections == 1..MaxK + 1

(***************************************************************************)
(* EstimateHazardNumpy                                                      *)
(***************************************************************************)
\* the orders in which iterating the set S can yield its elements
Orders(S) ==
    {o \in [1..Cardinality(S) -> S] :
        \A i, j \in 1..Cardinality(S) : i # j => o[i] # o[j]}

\* ended / at_risk_array for one position; numpy gives nan or inf, not an
\* exception, for a zero divisor
NumpyDivide(ended, at_risk) ==
    IF at_risk # 0 THEN RDiv(ended, FromInt(at_risk))
    ELSE IF ended = Zero THEN NaN ELSE Inf

\* EstimateHazardNumpy(complete, ongoing), the set ts being iterated in the
\* order ts: [err, lams]; not_at_risk[0] = 0 raises IndexError on an empty array
EstimateHazardNumpy(complete, ongoing, ts) ==
    LET hist_complete == Counter(complete)
        hist_ongoing == Counter(ongoing)
        at_risk == Len(complete) + Len(ongoing)
        ended == [i \in 1..Len(ts) |-> DictGet(hist_complete, ts[i], Zero)]
        ended_c == CumSum(ended)
        censored_c == CumSum([i \in 1..Len(ts) |-> DictGet(hist_ongoing, ts[i], Zero)])
        not_at_risk == [i \in 1..Len(ts) |->
                          IF i = 1 THEN 0 ELSE ended_c[i - 1][1] + censored_c[i - 1][1]]
        at_risk_array == [i \in 1..Len(ts) |-> at_risk - not_at_risk[i]]
        hs == [i \in 1..Len(ts) |-> NumpyDivide(ended[i], at_risk_array[i])]
    IN  IF Len(ts) = 0 THEN [err |-> "IndexError", lams |-> <<>>]
        ELSE [err |-> "none", lams |-> [i \in 1..Len(ts) |-> <<ts[i], hs[i]>>]]

\* EstimateHazardNumpy(complete, ongoing) on the lifetimes that
\* EstimateHazardFunction was called with; ts is the order of the set
DoEstimateHazardNumpy(ts) ==
    /\ hz.made
    /\ LET r == EstimateHazardNumpy(hz.complete, hz.ongoing, ts) IN
       sq' = [op |-> "EstimateHazardNumpy", arg |-> ts,
              ret |-> [err |-> r.err, val |-> r.lams]]
    /\ UNCHANGED <<hz, hf, sf, emp, notSurv>>

\* the components this specification does not exercise are at rest
RestIdle == SurvIdle /\ OpIdle /\ HeapIdle

(***************************************************************************)
(* Specifications                                                           *)
(***************************************************************************)
MapInit == MapIdle /\ PmfIdle /\ CdfIdle /\ SuiteIdle /\ TestIdle /\ HazIdle /\ RestIdle

MapNext ==
    \/ \E s \in RawSeqs : NewPmfSeq(s)
    \/ \E s \in RawSeqs : NewHistSeq(s)
    \/ \E obj \in DictInputs : NewPmfDict(obj)
    \/ \E obj \in DictInputs : NewHistDict(obj)

SpecMap == MapInit /\ [][MapNext]_vars

PmfInit ==
    /\ MapIdle /\ CdfIdle /\ SuiteIdle /\ TestIdle /\ HazIdle /\ RestIdle
    /\ pa \in Operands
    /\ pb \in Operands
    /\ pres = EmptyMap
    /\ pop = "none"

PmfNext == DoAddPmf \/ DoSubPmf \/ DoMulPmf

SpecPmf == PmfInit /\ [][PmfNext]_vars

CdfInit == MapIdle /\ PmfIdle /\ CdfIdle /\ SuiteIdle /\ TestIdle /\ HazIdle /\ RestIdle

CdfNext ==
    \/ \E obj \in CdfSources : MakeCdfHist(obj)
    \/ \E obj \in CdfSources : MakeCdfPmf(obj)
    \/ \E s \in RawSeqs : MakeCdfSeq(s)
    \/ DoCopy
    \/ \E term \in Terms : DoShift(term)
    \/ \E factor \in Factors : DoScale(factor)
    \/ \E k \in 1..MaxK : DoMax(k)

SpecCdf == CdfInit /\ [][CdfNext]_vars

QueryNext ==
    \/ \E obj \in CdfSources : MakeCdfHist(obj)
    \/ \E obj \in CdfSources : MakeCdfPmf(obj)
    \/ \E s \in RawSeqs : MakeCdfSeq(s)
    \/ \E x \in ProbArgs : DoProb(x)
    \/ \E p \in ValueArgs : DoValue(p)

SpecQuery == CdfInit /\ [][QueryNext]_vars

SuiteInit ==
    /\ MapIdle /\ PmfIdle /\ CdfIdle /\ TestIdle /\ HazIdle /\ RestIdle
    /\ suite \in Priors
    /\ batch = suite
    /\ sdata = <<>> /\ sok = TRUE
    /\ slast = NoUpdate /\ bset = NoUpdateSet

SuiteNext ==
    \/ \E data \in Data : DoUpdate(data)
    \/ DoUpdateSet

SpecSuite == SuiteInit /\ [][SuiteNext]_vars

TestInit == MapIdle /\ PmfIdle /\ CdfIdle /\ SuiteIdle /\ TestIdle /\ HazIdle /\ RestIdle

TestNext ==
    \/ \E data \in CoinData : NewCoinTest(data)
    \/ \E data \in GroupData : NewDiffMeans(data)
    \/ \E iters \in Iterations(ht) : \E choices \in [1..iters -> Choices(ht)] :
           DoPValue(choices)
    \/ \E choice \in Choices(ht) : DoRunModel(choice)
    \/ DoMaxTestStat

SpecTest == TestInit /\ [][TestNext]_vars

HazInit == MapIdle /\ PmfIdle /\ CdfIdle /\ SuiteIdle /\ TestIdle /\ HazIdle /\ RestIdle

HazNext ==
    /\ ~hz.made
    /\ \E complete \in RawSeqs, ongoing \in RawSeqs : DoEstimate(complete, ongoing)

SpecHazard == HazInit /\ [][HazNext]_vars

\* the complete lifetimes of the documented scenario
ScenarioLifetimes == <<1, 2, 2, 3>>

\* the samples of complete lifetimes the survival curves are estimated from
Lifetimes == RawSeqs \cup {ScenarioLifetimes}

\* the samples of ongoing lifetimes the survival curves are estimated with
FewOngoing == UNION {[1..n -> Vals] : n \in 0..1}

SurvInit ==
    /\ MapIdle /\ PmfIdle /\ CdfIdle /\ SuiteIdle /\ TestIdle /\ HazIdle
    /\ SurvIdle /\ OpIdle /\ HeapIdle

SurvNext ==
    \/ ~hf.made /\ \E complete \in Lifetimes, ongoing \in FewOngoing :
                       DoEstimateHazard(complete, ongoing)
    \/ ~hf.made /\ \E d \in HazardInputs : NewHazardFunction(d)
    \/ DoMakeSurvival
    \/ DoMakeSurvivalFromSeq
    \/ \E t \in ProbArgs : DoSurvProb(t)

SpecSurvival == SurvInit /\ [][SurvNext]_vars

\* the maps the calls start from: linear space, keys set in either order
OpInit ==
    /\ MapIdle /\ PmfIdle /\ CdfIdle /\ SuiteIdle /\ TestIdle /\ HazIdle
    /\ SurvIdle /\ HeapIdle
    /\ wm \in Operands
    /\ wcall = NoOp

OpNext ==
    \/ \E fraction \in Fractions : DoNormalize(fraction)
    \/ DoLog
    \/ DoExp

SpecOp == OpInit /\ [][OpNext]_vars

ScalarNext ==
    \/ \E c \in Scalars : DoAddScalar(c)
    \/ \E c \in Scalars : DoSubScalar(c)
    \/ \E c \in Scalars : DoMulScalar(c)
    \/ \E c \in Scalars : DoDivScalar(c)
    \/ \E factor \in Scalars : DoScaleValues(factor)

SpecScalar == OpInit /\ [][ScalarNext]_vars

DrawInit ==
    /\ MapIdle /\ PmfIdle /\ CdfIdle /\ SuiteIdle /\ TestIdle /\ HazIdle
    /\ SurvIdle /\ HeapIdle
    /\ wm \in DrawMaps
    /\ wcall = NoOp

DrawNext ==
    \/ \E q \in Percentages : DoPercentile(q)
    \/ \E target \in Draws : DoRandom(target)

SpecDraw == DrawInit /\ [][DrawNext]_vars

\* who a mutation is applied to
Sides == {"src", "der"}

HeapInit ==
    /\ MapIdle /\ PmfIdle /\ CdfIdle /\ SuiteIdle /\ TestIdle /\ HazIdle
    /\ SurvIdle /\ OpIdle /\ HeapIdle

HeapNext ==
    \/ \E kind \in {"Hist", "Pmf", "dict"}, d \in SourceDicts : NewSourceMap(kind, d)
    \/ \E d \in SourceDicts : NewSourceCdf(d)
    \/ DoCopyMap
    \/ \E factor \in {-1, 2} : DoScaleMap(factor)
    \/ DoMakeCdf
    \/ DoPmfMax(2)
    \/ DoSuiteFromHist
    \/ DoSuiteFromDict
    \/ DoCdfCopy
    \/ DoCdfShift(1)
    \/ DoCdfScale(2)
    \/ DoCdfMax(2)
    \/ DoCdfMakePmf
    \/ \E who \in Sides, x \in SourceKeys : MutSet(who, x, FromInt(3))
    \/ \E who \in Sides, x \in SourceKeys : MutIncr(who, x, One)
    \/ \E who \in Sides, x \in SourceKeys : MutMult(who, x, FromInt(2))
    \/ \E who \in Sides, x \in SourceKeys : MutRemove(who, x)
    \/ \E who \in Sides : MutNormalize(who)
    \/ \E who \in Sides, data \in [SourceKeys -> {One, FromInt(2)}] : MutUpdate(who, data)

SpecHeap == HeapInit /\ [][HeapNext]_vars

OddsInit ==
    /\ MapIdle /\ PmfIdle /\ CdfIdle /\ SuiteIdle /\ TestIdle /\ HazIdle
    /\ SurvIdle /\ HeapIdle
    /\ wm \in ProbSuites
    /\ wcall = NoOp

OddsNext == DoMakeOdds \/ DoMakeProbs

SpecOdds == OddsInit /\ [][OddsNext]_vars

SpliceInit ==
    /\ MapIdle /\ PmfIdle /\ CdfIdle /\ SuiteIdle /\ TestIdle /\ HazIdle
    /\ OpIdle /\ HeapIdle
    /\ hf \in SelfHazards
    /\ sf = NoSurvival /\ emp = NoSurvival /\ sq = NoSurvQuery

SpliceNext ==
    \/ \E other \in OtherHazards : DoExtend(other)
    \/ \E t \in TruncateTimes : DoTruncate(t)

SpecSplice == SpliceInit /\ [][SpliceNext]_vars

LifetimeNext ==
    \/ ~hf.made /\ \E complete \in Lifetimes, ongoing \in FewOngoing :
                       DoEstimateHazard(complete, ongoing)
    \/ DoMakeSurvival
    \/ DoRemainingLifetime

SpecLifetime == SurvInit /\ [][LifetimeNext]_vars

RoundTripNext ==
    \/ ~hf.made /\ \E d \in RoundTripHazards : NewHazardFunction(d)
    \/ DoMakeSurvival
    \/ DoMakeHazardFunction

SpecRoundTrip == SurvInit /\ [][RoundTripNext]_vars

CopyNext ==
    \/ \E kind \in {"Hist", "Pmf"}, d \in SourceDicts : NewSourceMap(kind, d)
    \/ \E d \in SourceDicts : NewSourceCdf(d)
    \/ DoCopyMap
    \/ \E factor \in {1, 2} : DoScaleMap(factor)
    \/ DoCdfCopy
    \/ \E factor \in {1, 2} : DoCdfScale(factor)
    \/ ~hf.made /\ \E d \in CopyHazards : NewHazardFunction(d)
    \/ DoMakeSurvival
    \/ DoSurvivalCall("Copy", 0)
    \/ DoSurvivalCall("Scale", 1)

SpecCopy == HeapInit /\ [][CopyNext]_vars

MaxNext ==
    \/ \E d \in MaxDicts : NewSourceMap("Pmf", d)
    \/ \E d \in MaxDicts : NewSourceCdf(d)
    \/ \E k \in Selections : DoPmfMax(k)
    \/ \E k \in Selections : DoCdfMax(k)

SpecMax == HeapInit /\ [][MaxNext]_vars

NumpyNext ==
    \/ ~hz.made /\ \E complete \in RawSeqs, ongoing \in FewOngoing :
                       DoEstimate(complete, ongoing)
    \/ hz.made /\ \E ts \in Orders({hz.complete[i] : i \in DOMAIN hz.complete}
                                   \cup {hz.ongoing[i] : i \in DOMAIN hz.ongoing}) :
                       DoEstimateHazardNumpy(ts)

SpecNumpy == HazInit /\ [][NumpyNext]_vars

(***************************************************************************)
(* Claims about the Pmf constructor (SpecMap) and the Pmf algebra (SpecPmf)  *)
(***************************************************************************)
\* how often v occurs in the raw sample s
Count(s, v) == Cardinality({i \in 1..Len(s) : s[i] = v})

Elems(s) == {s[i] : i \in 1..Len(s)}

\* C1: for every non-empty raw sequence s, Pmf(s) holds exactly one entry per
\* distinct element v of s, with weight count(v)/len(s), so the weights sum to 1.
C1_PmfFromSample ==
    (mop.op = "PmfSeq" /\ mop.arg # <<>>) =>
        /\ Keys(mm.d) = Elems(mop.arg)
        /\ Len(mm.d) = Cardinality(Elems(mop.arg))
        /\ \A v \in Elems(mop.arg) :
               DictGet(mm.d, v, Zero) = Rat(Count(mop.arg, v), Len(mop.arg))
        /\ Total(mm.d) = One

\* a sample with a repeated element and a second one: weights 2/3 and 1/3
C1_Witness ==
    /\ mop.op = "PmfSeq"
    /\ mop.arg = <<1, 0, 1>>
    /\ mm.d = <<<<1, Rat(2, 3)>>, <<0, Rat(1, 3)>>>>

\* the sum of f over the finite set S of index pairs
RECURSIVE SumOver(_, _, _)
SumOver(S, ad, bd) ==
    IF S = {} THEN Zero
    ELSE LET x == CHOOSE y \in S : TRUE IN
         RAdd(RMul(ad[x[1]][2], bd[x[2]][2]), SumOver(S \ {x}, ad, bd))

Pairs(ad, bd) == (1..Len(ad)) \X (1..Len(bd))

\* the operator of the last binary operation
LastKeyOp ==
    CASE pop = "AddPmf" -> "add"
      [] pop = "SubPmf" -> "sub"
      [] pop = "MulPmf" -> "mul"
      [] OTHER -> "none"

\* the weight the pushforward of OP puts on key k
Pushforward(op, ad, bd, k) ==
    SumOver({x \in Pairs(ad, bd) : KeyOp(op, ad[x[1]][1], bd[x[2]][1]) = k}, ad, bd)

PushforwardKeys(op, ad, bd) ==
    {KeyOp(op, ad[x[1]][1], bd[x[2]][1]) : x \in Pairs(ad, bd)}

\* C2: A+B, A-B and A*B return a Pmf whose weight at every key k is the sum of
\* A[v1]*B[v2] over the pairs with v1 OP v2 = k, with no other keys and no
\* renormalization, so its total is total(A)*total(B) (1 for normalized inputs);
\* {0:1}+{v:1} = {v:1} and {0:1}-{v:1} = {-v:1}.
C2_PmfAlgebra ==
    (LastKeyOp # "none") =>
        /\ Keys(pres.d) = PushforwardKeys(LastKeyOp, pa.d, pb.d)
        /\ Len(pres.d) = Cardinality(Keys(pres.d))
        /\ \A k \in Keys(pres.d) :
               DictGet(pres.d, k, Zero) = Pushforward(LastKeyOp, pa.d, pb.d, k)
        /\ Total(pres.d) = RMul(Total(pa.d), Total(pb.d))
        /\ (Total(pa.d) = One /\ Total(pb.d) = One) => Total(pres.d) = One
        /\ \A v \in OperandKeys :
               (pa.d = <<<<0, One>>>> /\ pb.d = <<<<v, One>>>>) =>
                   /\ LastKeyOp = "add" => pres.d = <<<<v, One>>>>
                   /\ LastKeyOp = "sub" => pres.d = <<<<-v, One>>>>

\* a sum in which two pairs of values fall on the same key
C2_Witness ==
    /\ pop = "AddPmf"
    /\ pa.d = <<<<0, Rat(1, 2)>>, <<1, Rat(1, 2)>>>>
    /\ pb.d = <<<<0, Rat(1, 2)>>, <<1, Rat(1, 2)>>>>
    /\ pres.d = <<<<0, Rat(1, 4)>>, <<1, Rat(1, 2)>>, <<2, Rat(1, 4)>>>>

(***************************************************************************)
(* Claims about the Cdf (SpecCdf, SpecQuery)                                *)
(***************************************************************************)
WellFormed(c) ==
    /\ Len(c.xs) = Len(c.ps)
    /\ \A i \in 1..(Len(c.xs) - 1) : c.xs[i] < c.xs[i + 1]
    /\ \A i \in 1..(Len(c.ps) - 1) : RLe(c.ps[i], c.ps[i + 1])
    /\ c.ps[Len(c.ps)] = One

\* C3: every Cdf constructed from a Hist, a Pmf or a raw sequence with
\* non-negative weights and positive total, and then put through any sequence
\* of Copy, Shift, Scale and Max (k >= 1), has len(xs) = len(ps), xs strictly
\* ascending, ps non-decreasing and ps[last] = 1.
C3_CdfInvariant == (cdf.made /\ Len(cdf.xs) > 0) => WellFormed(cdf)

\* the Cdf under query: built from a non-empty map
Queried == cdf.made /\ Len(cdf.xs) > 0

ProbOf(x) == CdfProb(cdf, x).val

\* C4: Value(p) raises when p < 0 or p > 1; for p in [0, 1] it returns, without
\* indexing out of range, the smallest recorded x with Prob(x) >= p; hence
\* Prob(Value(p)) >= p and Prob(Value(Prob(x))) >= Prob(x) for every x.
C4_Value ==
    Queried =>
        /\ cq.op = "Value" =>
              IF RLt(cq.arg, Zero) \/ RLt(One, cq.arg)
              THEN cq.ret.err = "ValueError"
              ELSE /\ cq.ret.err = "none"
                   /\ \E i \in 1..Len(cdf.xs) : cdf.xs[i] = cq.ret.val
                   /\ RLe(cq.arg, ProbOf(cq.ret.val))
                   /\ \A i \in 1..Len(cdf.xs) :
                          RLe(cq.arg, ProbOf(cdf.xs[i])) => cq.ret.val <= cdf.xs[i]
        /\ \A x \in ProbArgs :
              /\ CdfValue(cdf, ProbOf(x)).err = "none"
              /\ RLe(ProbOf(x), ProbOf(CdfValue(cdf, ProbOf(x)).val))

\* Value(1/2) where the cumulative probability 1/2 is reached exactly at 1
C4_Witness ==
    /\ cq.op = "Value"
    /\ cq.arg = Rat(1, 2)
    /\ cdf.xs = <<0, 1, 2>>
    /\ cdf.ps = <<Rat(1, 4), Rat(1, 2), One>>
    /\ cq.ret = [err |-> "none", val |-> 1]

\* C5: Prob(x) is 0 for x below xs[0], otherwise ps[i] for the largest i with
\* xs[i] <= x; so Prob is non-decreasing in x and Prob(max key) = 1.
C5_Prob ==
    Queried =>
        /\ cq.op = "Prob" =>
              /\ cq.ret.err = "none"
              /\ IF cq.arg < cdf.xs[1]
                 THEN cq.ret.val = Zero
                 ELSE \E i \in 1..Len(cdf.xs) :
                          /\ cdf.xs[i] <= cq.arg
                          /\ \A j \in 1..Len(cdf.xs) : cdf.xs[j] <= cq.arg => j <= i
                          /\ cq.ret.val = cdf.ps[i]
        /\ \A x, y \in ProbArgs : x <= y => RLe(ProbOf(x), ProbOf(y))
        /\ ProbOf(cdf.xs[Len(cdf.xs)]) = One

\* Prob(1) between the recorded values 0 and 2
C5_Witness ==
    /\ cq.op = "Prob"
    /\ cq.arg = 1
    /\ cdf.xs = <<0, 2>>
    /\ cdf.ps = <<Rat(1, 3), One>>
    /\ cq.ret = [err |-> "none", val |-> Rat(1, 3)]

(***************************************************************************)
(* Claims about the Suite (SpecSuite)                                       *)
(***************************************************************************)
\* sum over the hypotheses of weight times likelihood
RECURSIVE Evidence(_, _, _)
Evidence(pre, data, hypos) ==
    IF hypos = <<>> THEN Zero
    ELSE RAdd(RMul(DictGet(pre, hypos[1], Zero), data[hypos[1]]),
              Evidence(pre, data, Tail(hypos)))

\* the datum with likelihood l1 under H1 and l2 under H2
Like(l1, l2) == [h \in Hypos |-> IF h = "H1" THEN l1 ELSE l2]

EvenPrior == <<<<"H1", Rat(1, 2)>>, <<"H2", Rat(1, 2)>>>>

\* C6: Update(data) on weights w_h with S = sum_h w_h * L_h non-zero sets every
\* weight to w_h * L_h / S, keeps the hypotheses, and returns S; after any
\* sequence of successful Updates the weights sum to 1; the prior
\* {H1: 1/2, H2: 1/2} with L(H1) = 2, L(H2) = 1 becomes {H1: 2/3, H2: 1/3} and
\* Update returns 3/2.
C6_Update ==
    /\ slast.op = "Update" =>
          LET S == Evidence(slast.pre, slast.data, HypoOrder) IN
          S # Zero =>
              /\ slast.ok
              /\ slast.ret = S
              /\ KeySeq(suite.d) = KeySeq(slast.pre)
              /\ \A h \in Hypos :
                     DictGet(suite.d, h, Zero)
                        = RDiv(RMul(DictGet(slast.pre, h, Zero), slast.data[h]), S)
    /\ (sok /\ sdata # <<>>) => Total(suite.d) = One
    /\ (slast.op = "Update" /\ slast.pre = EvenPrior /\ slast.data = Like(FromInt(2), One)) =>
          /\ slast.ok
          /\ suite.d = <<<<"H1", Rat(2, 3)>>, <<"H2", Rat(1, 3)>>>>
          /\ slast.ret = Rat(3, 2)

\* the even prior updated with likelihoods 2 and 1
C6_Witness ==
    /\ slast.op = "Update"
    /\ slast.pre = EvenPrior
    /\ slast.data = Like(FromInt(2), One)
    /\ suite.d = <<<<"H1", Rat(2, 3)>>, <<"H2", Rat(1, 3)>>>>
    /\ slast.ret = Rat(3, 2)

\* C7: when no intermediate total is zero, UpdateSet([d1..dn]) leaves the same
\* posterior weights as Update(d1), ..., Update(dn) in that order on an equal
\* prior.
C7_UpdateSet ==
    (bset.done /\ bset.arg = sdata /\ sok) =>
        /\ bset.ok
        /\ batch.d = suite.d

\* two different data, on the prior {H1: 1/3, H2: 2/3}
C7_Witness ==
    /\ bset.done /\ bset.ok /\ sok
    /\ bset.arg = sdata
    /\ sdata = <<Like(FromInt(2), One), Like(One, FromInt(2))>>
    /\ batch.d = <<<<"H1", Rat(1, 3)>>, <<"H2", Rat(2, 3)>>>>
    /\ suite.d = batch.d

(***************************************************************************)
(* Claims about HypothesisTest (SpecTest)                                   *)
(***************************************************************************)
\* the calls of hook f in the log of the last operation
CallsOf(f) == {i \in 1..Len(ht.calls) : ht.calls[i].f = f}

\* |{i : stats[i] >= actual}| / n
FractionGE(stats, actual) ==
    Rat(Cardinality({i \in 1..Len(stats) : RLe(actual, stats[i])}), Len(stats))

\* C8: test_stats is unset from construction until the first PValue call; after
\* PValue(n) with n >= 1, RunModel and TestStatistic have each been called
\* exactly n times for that call, test_stats holds exactly those n statistics,
\* and the value returned is |{i : test_stats[i] >= actual}| / n, which lies in
\* [0, 1] and is the same for every reordering of the simulated statistics.
C8_PValue ==
    /\ ~hpv => ~ht.has_stats
    /\ (hret.op = "PValue" /\ hret.arg >= 1) =>
          LET n == hret.arg IN
          /\ ht.has_stats
          /\ Cardinality(CallsOf("RunModel")) = n
          /\ Cardinality(CallsOf("TestStatistic")) = n
          /\ Len(ht.calls) = 2 * n
          /\ Len(ht.test_stats) = n
          /\ \A i \in 1..n :
                /\ ht.calls[2 * i - 1].f = "RunModel"
                /\ ht.calls[2 * i].f = "TestStatistic"
                /\ ht.calls[2 * i].arg = ht.calls[2 * i - 1].out
                /\ ht.test_stats[i] = ht.calls[2 * i].out
          /\ hret.err = "none"
          /\ hret.val = FractionGE(ht.test_stats, ht.actual)
          /\ RLe(Zero, hret.val) /\ RLe(hret.val, One)
          /\ \A perm \in Perms(n) :
                FractionGE([i \in 1..n |-> ht.test_stats[perm[i]]], ht.actual) = hret.val

\* two shuffles of the groups (1, 1) and (0): one as extreme as the data, one
\* less extreme
C8_Witness ==
    /\ ht.kind = "DiffMeans"
    /\ ht.data = <<<<1, 1>>, <<0>>>>
    /\ ht.actual = One
    /\ hret.op = "PValue"
    /\ hret.arg = 2
    /\ ht.test_stats = <<One, Rat(1, 2)>>
    /\ hret.val = Rat(1, 2)

\* the constructor called MakeModel with the data stored, then TestStatistic on
\* the data, and kept what it returned as actual
ConstructedInOrder ==
    hret.op = "Construct" =>
        /\ Len(ht.calls) = 2
        /\ ht.calls[1].f = "MakeModel"
        /\ ht.calls[1].arg = ht.data
        /\ ht.calls[2].f = "TestStatistic"
        /\ ht.calls[2].arg = ht.data
        /\ ht.calls[2].out = ht.actual

\* C9: the constructor stores the data, then runs MakeModel, then computes
\* actual = TestStatistic(data); afterwards no PValue, RunModel or MaxTestStat
\* call changes actual or the stored data, so TestStatistic(self.data) = actual
\* in every reachable state.
C9_ActualFrozen ==
    /\ [](ConstructedInOrder /\ (ht.made => TestStat(ht.kind, ht.data) = ht.actual))
    /\ [][ht.made => (ht'.data = ht.data /\ ht'.actual = ht.actual)]_vars

\* a RunModel call has left the pool of the groups (1, 1) and (0) reversed
C9_Witness ==
    /\ ht.kind = "DiffMeans"
    /\ hret.op = "RunModel"
    /\ ht.data = <<<<1, 1>>, <<0>>>>
    /\ ht.pool = <<0, 1, 1>>
    /\ ht.actual = One

(***************************************************************************)
(* Claims about the hazard estimator (SpecHazard)                           *)
(***************************************************************************)
\* the number of complete and ongoing observations with value >= t
AtRiskAt(t) ==
    LET obs == hz.complete \o hz.ongoing IN
    Cardinality({k \in 1..Len(obs) : obs[k] >= t})

\* C10: EstimateHazardFunction(complete, ongoing) processes the distinct
\* observed times in ascending order and records for each time t the hazard
\* (number of complete lifetimes equal to t) / (number of complete and ongoing
\* observations >= t); the at-risk divisor is at least 1 at every time
\* processed, every hazard lies in [0, 1], and the at-risk count is 0 after the
\* last time.
C10_Hazard ==
    hz.made =>
        /\ hz.err = "none"
        /\ {hz.lams[i][1] : i \in 1..Len(hz.lams)} = Elems(hz.complete) \cup Elems(hz.ongoing)
        /\ \A i, j \in 1..Len(hz.lams) : i < j => hz.lams[i][1] < hz.lams[j][1]
        /\ Len(hz.risks) = Len(hz.lams)
        /\ \A i \in 1..Len(hz.lams) :
              LET t == hz.lams[i][1]
                  hazard == hz.lams[i][2]
              IN  /\ hz.risks[i] = AtRiskAt(t)
                  /\ hz.risks[i] >= 1
                  /\ hazard = Rat(Count(hz.complete, t), AtRiskAt(t))
                  /\ RLe(Zero, hazard) /\ RLe(hazard, One)
        /\ hz.at_risk = 0

\* two lifetimes ended at 1, one ended at 2, one still ongoing at 1
C10_Witness ==
    /\ hz.made
    /\ hz.complete = <<1, 2, 1>>
    /\ hz.ongoing = <<1>>
    /\ hz.lams = <<<<1, Rat(1, 2)>>, <<2, One>>>>
    /\ hz.risks = <<4, 1>>
    /\ hz.at_risk = 0

(***************************************************************************)
(* Claims about the survival curves (SpecSurvival)                          *)
(***************************************************************************)
\* (number of lifetimes > t) / len(complete)
EmpiricalSurvival(complete, t) ==
    Rat(Cardinality({k \in 1..Len(complete) : complete[k] > t}), Len(complete))

Uncensored == hz.made /\ hz.ongoing = <<>> /\ hz.complete # <<>> /\ sf.made

\* C11: with no censoring, EstimateHazardFunction(complete, []).MakeSurvival()
\* is the empirical survival curve of complete, S(t) = (number of lifetimes
\* > t) / len(complete) at every recorded time t, as MakeSurvivalFromSeq
\* computes it; for complete = [1, 2, 2, 3]: S(0) = 1, S(1) = 3/4, S(2) = 1/4,
\* S(3) = 0.
C11_NoCensoring ==
    Uncensored =>
        /\ {sf.ts[i] : i \in 1..Len(sf.ts)} = Elems(hz.complete)
        /\ \A i \in 1..Len(sf.ts) : sf.ss[i] = EmpiricalSurvival(hz.complete, sf.ts[i])
        /\ emp.made => (emp.ts = sf.ts /\ emp.ss = sf.ss)
        /\ (sq.op = "Prob" /\ sq.arg \in Elems(hz.complete)) =>
              sq.ret = [err |-> "none", val |-> EmpiricalSurvival(hz.complete, sq.arg)]
        /\ (sq.op = "Prob" /\ hz.complete = ScenarioLifetimes) =>
              /\ sq.arg = 0 => sq.ret.val = One
              /\ sq.arg = 1 => sq.ret.val = Rat(3, 4)
              /\ sq.arg = 2 => sq.ret.val = Rat(1, 4)
              /\ sq.arg = 3 => sq.ret.val = Zero

\* both curves of the lifetimes [1, 2, 2, 3], and S(2) read off the first
C11_Witness ==
    /\ Uncensored
    /\ hz.complete = ScenarioLifetimes
    /\ sf.ts = <<1, 2, 3>>
    /\ sf.ss = <<Rat(3, 4), Rat(1, 4), Zero>>
    /\ emp.made /\ emp.ss = sf.ss
    /\ sq.op = "Prob" /\ sq.arg = 2 /\ sq.ret.val = Rat(1, 4)

\* the product of 1 - hazard over the first i entries of the series
RECURSIVE SurvivalUpTo(_, _)
SurvivalUpTo(series, i) ==
    IF i = 0 THEN One
    ELSE RMul(SurvivalUpTo(series, i - 1), RSub(One, series[i][2]))

\* C12: for a HazardFunction with ascending times and hazards in [0, 1],
\* MakeSurvival() returns a SurvivalFunction over the same times with ss[i] the
\* product of 1 - hazard(t_j) over j <= i; the sequence is non-increasing and
\* within [0, 1], and the survival reported before the first time is 1.
C12_MakeSurvival ==
    sf.made =>
        /\ Len(sf.ts) = Len(hf.series) /\ Len(sf.ss) = Len(hf.series)
        /\ \A i \in 1..Len(hf.series) :
              /\ sf.ts[i] = hf.series[i][1]
              /\ sf.ss[i] = SurvivalUpTo(hf.series, i)
              /\ RLe(Zero, sf.ss[i]) /\ RLe(sf.ss[i], One)
              /\ i > 1 => RLe(sf.ss[i], sf.ss[i - 1])
        /\ (sq.op = "Prob" /\ sf.ts # <<>> /\ sq.arg < sf.ts[1]) =>
              sq.ret = [err |-> "none", val |-> One]

\* hazards 1/2, 1/2, 1 at the times 0, 1, 2, and the survival read before 0
C12_Witness ==
    /\ sf.made
    /\ hf.series = <<<<0, Rat(1, 2)>>, <<1, Rat(1, 2)>>, <<2, One>>>>
    /\ sf.ss = <<Rat(1, 2), Rat(1, 4), Zero>>
    /\ sq.op = "Prob" /\ sq.arg = -1 /\ sq.ret.val = One

(***************************************************************************)
(* Claims about derived structures (SpecHeap)                               *)
(***************************************************************************)
\* the addresses object o holds
Addresses(o) ==
    IF o.kind = "Cdf" THEN {o.xs, o.ps}
    ELSE IF o.kind = "none" THEN {}
    ELSE {o.d}

\* C13: no derived structure shares its backing map or arrays with the object
\* it was derived from: the construction and any later mutations of the
\* derived object leave the source's entries unchanged, and mutations of the
\* source leave the derived object unchanged.  frame.src and frame.der hold
\* what each side held at the derivation, brought up to date by the mutations
\* applied to that side only.
C13_NoSharing ==
    frame.op # "none" =>
        /\ Contents(heap, src) = frame.src
        /\ der.kind # "none" =>
              /\ Contents(heap, der) = frame.der
              /\ Addresses(src) \cap Addresses(der) = {}

(***************************************************************************)
(* C14, C15: Pmf.Normalize                                                  *)
(***************************************************************************)
\* the last call was Normalize on a linear-space map with a non-zero total
NormalizeApplies ==
    /\ wcall.op = "Normalize"
    /\ ~wcall.pre.log
    /\ Total(wcall.pre.d) # Zero

\* C14: Normalize(fraction) on a map that is not under a log transform and
\* has a non-zero total T raises nothing, returns T, keeps the keys, leaves
\* each weight at its old value times fraction / T, so that the new total is
\* fraction and the ratio of any two weights is what it was.
C14_Normalize ==
    NormalizeApplies =>
        LET old == wcall.pre.d
            T == Total(old) IN
        /\ wcall.err = "none"
        /\ wcall.ret = T
        /\ wm.log = wcall.pre.log
        /\ Len(wm.d) = Len(old)
        /\ \A i \in 1..Len(old) :
              /\ wm.d[i][1] = old[i][1]
              /\ RMul(wm.d[i][2], T) = RMul(old[i][2], wcall.arg)
        /\ Total(wm.d) = wcall.arg
        /\ \A i, j \in 1..Len(old) :
              RMul(wm.d[i][2], old[j][2]) = RMul(wm.d[j][2], old[i][2])

\* Normalize(1/2) has rescaled a two-key map of total 3 whose weights differ
C14_Witness ==
    /\ NormalizeApplies
    /\ wcall.arg = Rat(1, 2)
    /\ wcall.pre.d = <<<<1, FromInt(2)>>, <<0, One>>>>
    /\ wcall.ret = FromInt(3)
    /\ wm.d = <<<<1, Rat(1, 3)>>, <<0, Rat(1, 6)>>>>

\* the last call was Normalize on a map under a log transform or of total zero
NormalizeRefuses ==
    /\ wcall.op = "Normalize"
    /\ (wcall.pre.log \/ Total(wcall.pre.d) = Zero)

\* C15: Normalize raises when the map is under a log transform or its total
\* is exactly zero (the empty map included), and then the entries and the
\* log flag are exactly what they were before the call.
C15_NormalizeRaises ==
    NormalizeRefuses =>
        /\ wcall.err = "ValueError"
        /\ wcall.ret = <<>>
        /\ wm = wcall.pre

\* Normalize has raised on a two-key map whose weights are both zero
C15_Witness ==
    /\ NormalizeRefuses
    /\ ~wcall.pre.log
    /\ Len(wcall.pre.d) = 2
    /\ wcall.err = "ValueError"
    /\ wm = wcall.pre

(***************************************************************************)
(* C16, C17: Log and Exp                                                    *)
(***************************************************************************)
\* the step is a call of op that returns normally
Succeeds(op) == wcall' # wcall /\ wcall'.op = op /\ wcall'.err = "none"

\* the step is a call of op made while the log flag is flag
CalledWith(op, flag) == wcall' # wcall /\ wcall'.op = op /\ wm.log = flag

\* C16: on a map that starts in linear space, Log returns normally only
\* when the flag is false and sets it, Exp only when the flag is true and
\* clears it, and the calls that return normally alternate, beginning with
\* Log; Log under a set flag and Exp under a cleared flag raise and leave
\* the flag and the entries as they were.
C16_LogExpAlternate ==
    [][/\ Succeeds("Log") => ~wm.log /\ wm'.log /\ wcall.prev # "Log"
       /\ Succeeds("Exp") => wm.log /\ ~wm'.log /\ wcall.prev = "Log"
       /\ CalledWith("Log", TRUE) => wcall'.err = "ValueError" /\ wm' = wm
       /\ CalledWith("Exp", FALSE) => wcall'.err = "ValueError" /\ wm' = wm]_vars

\* the last call was Log on a non-empty linear-space map with weights that
\* are not negative and are not all zero
LogApplies ==
    /\ wcall.op = "Log"
    /\ ~wcall.pre.log
    /\ wcall.pre.d # <<>>
    /\ \A i \in 1..Len(wcall.pre.d) : RLe(Zero, wcall.pre.d[i][2])
    /\ \E i \in 1..Len(wcall.pre.d) : RLt(Zero, wcall.pre.d[i][2])

\* the largest weight of d
LargestWeight(d) ==
    CHOOSE p \in {d[i][2] : i \in 1..Len(d)} :
        \A i \in 1..Len(d) : RLe(d[i][2], p)

\* d without its zero weights, every other weight p replaced by log(p / m)
LogOf(d, m) ==
    LET kept == SelectSeq(d, LAMBDA item : item[2] # Zero) IN
    [i \in 1..Len(kept) |-> <<kept[i][1], MathLog(RDiv(kept[i][2], m))>>]

\* C17: Log() on a non-empty linear-space map with non-negative weights, one
\* of them positive, raises nothing, sets the flag, removes exactly the
\* entries of weight zero and replaces every other weight p by
\* log(p / largest weight), so that the largest value left is 0.
C17_Log ==
    LogApplies =>
        /\ wcall.err = "none"
        /\ wm.log
        /\ wm.d = LogOf(wcall.pre.d, LargestWeight(wcall.pre.d))
        /\ \E i \in 1..Len(wm.d) : wm.d[i][2] = Zero
        /\ \A i \in 1..Len(wm.d) : ~FloatLt(Zero, wm.d[i][2])

(***************************************************************************)
(* C18: a Pmf and a scalar                                                  *)
(***************************************************************************)
\* the last call combined the map with a scalar and returned normally
ScalarApplied ==
    /\ wcall.op \in {"add", "sub", "mul", "div", "Scale"}
    /\ wcall.err = "none"

\* the value v OP c, as the keys of the result hold it
Image(op, v, c) ==
    CASE op = "add" -> v + c
      [] op = "sub" -> v - c
      [] op \in {"mul", "Scale"} -> v * c
      [] op = "div" -> Rat(v, c)

\* the sum of the weights of d at the values whose image under OP c is k
RECURSIVE WeightAt(_, _, _, _)
WeightAt(d, op, c, k) ==
    IF d = <<>> THEN Zero
    ELSE LET rest == WeightAt(Tail(d), op, c, k) IN
         IF Image(op, d[1][1], c) = k THEN RAdd(d[1][2], rest) ELSE rest

\* C18: A + c, A - c, A * c, A / c (c # 0) and Scale(c) return the
\* distribution of X OP c: the keys of the result are the images of the
\* keys of A, the weight at each is the sum of the weights of A at the values
\* with that image, and so the total weight of A is preserved.
C18_ScalarOps ==
    ScalarApplied =>
        LET A == wcall.pre.d
            res == wcall.ret.d
            op == wcall.op
            c == wcall.arg IN
        /\ Keys(res) = {Image(op, A[i][1], c) : i \in 1..Len(A)}
        /\ \A i \in 1..Len(res) : res[i][2] = WeightAt(A, op, c, res[i][1])
        /\ Total(res) = Total(A)
        /\ wm = wcall.pre

(***************************************************************************)
(* C19: Pmf.Percentile and Cdf.Percentile                                   *)
(***************************************************************************)
\* the last call was Percentile on a Pmf with non-negative weights and a
\* positive total
PercentileApplies ==
    /\ wcall.op = "Percentile"
    /\ \A i \in 1..Len(wcall.pre.d) : RLe(Zero, wcall.pre.d[i][2])
    /\ RLt(Zero, Total(wcall.pre.d))

\* C19: for a Pmf with non-negative weights and a positive total and a
\* percentage q in [0, 100], Percentile(q) returns the value that
\* MakeCdf().Percentile(q) returns.
C19_Percentile ==
    PercentileApplies =>
        /\ wcall.ret.pmf.err = "none" /\ wcall.ret.cdf.err = "none"
        /\ wcall.ret.pmf.some /\ wcall.ret.cdf.some
        /\ wcall.ret.pmf.val = wcall.ret.cdf.val

(***************************************************************************)
(* C20: Pmf.Random                                                          *)
(***************************************************************************)
\* the sum of the first n weights of d
Running(d, n) == Total(SubSeq(d, 1, n))

\* the positions of d at which the running weight has reached u
Reached(d, u) == {n \in 1..Len(d) : RLe(u, Running(d, n))}

\* the last call was Random
RandomCalled == wcall.op = "Random"

\* Random returned the first key whose running weight reaches the draw
ReturnsFirstReached ==
    wcall.err = "none" =>
        LET hits == Reached(wcall.pre.d, wcall.arg) IN
        /\ hits # {}
        /\ wcall.ret.val = wcall.pre.d[CHOOSE n \in hits : \A k \in hits : n <= k][1]

\* a Pmf whose weights sum to 1 gets a key of the map
NormalizedReturns ==
    Total(wcall.pre.d) = One =>
        wcall.err = "none" /\ wcall.ret.val \in Keys(wcall.pre.d)

\* C20 as stated: Random returns the first key in iteration order whose
\* running weight is >= the draw u, raises exactly when the total weight is
\* less than u, and always returns a key of a normalized Pmf.
C20_RandomAsStated ==
    RandomCalled =>
        /\ ReturnsFirstReached
        /\ wcall.err # "none" <=> RLt(Total(wcall.pre.d), wcall.arg)
        /\ NormalizedReturns

\* C20, amended: Random returns the first key in iteration order whose
\* running weight is >= the draw u and raises exactly when no running weight
\* reaches u, which on a non-empty map with non-negative weights is exactly
\* when the total is less than u; a Pmf whose weights sum to 1 always gets
\* a key of the map.
C20_Random ==
    RandomCalled =>
        LET d == wcall.pre.d IN
        /\ ReturnsFirstReached
        /\ wcall.err # "none" <=> Reached(d, wcall.arg) = {}
        /\ wcall.err # "none" => wcall.err = "ValueError"
        /\ (d # <<>> /\ \A i \in 1..Len(d) : RLe(Zero, d[i][2])) =>
              (wcall.err # "none" <=> RLt(Total(d), wcall.arg))
        /\ NormalizedReturns
        /\ wm = wcall.pre

\* Random drew 1/2 on {1: 1/2, 0: 1/2} and returned the first key, whose
\* running weight equals the draw
C20_Witness ==
    /\ RandomCalled
    /\ wcall.pre.d = <<<<1, Rat(1, 2)>>, <<0, Rat(1, 2)>>>>
    /\ wcall.arg = Rat(1, 2)
    /\ wcall.err = "none"
    /\ wcall.ret.val = 1

(***************************************************************************)
(* C21: MakeOdds and MakeProbs                                              *)
(***************************************************************************)
\* every weight of d is a probability in [0, 1]
InUnitInterval(d) ==
    \A i \in 1..Len(d) :
        IsRational(d[i][2]) /\ RLe(Zero, d[i][2]) /\ RLe(d[i][2], One)

\* the last two calls were MakeOdds, on a suite of probabilities, and MakeProbs
RoundTripMade ==
    /\ wcall.op = "MakeProbs"
    /\ wcall.ret.op = "MakeOdds"
    /\ InUnitInterval(wcall.ret.pre.d)

\* C21: on a suite whose probabilities lie in [0, 1], MakeOdds followed by
\* MakeProbs raises nothing, removes exactly the hypotheses of probability
\* zero and gives every other hypothesis its original probability back, the
\* hypotheses of probability 1 included.
C21_OddsRoundTrip ==
    /\ (wcall.op = "MakeOdds" /\ InUnitInterval(wcall.pre.d)) => wcall.err = "none"
    /\ RoundTripMade =>
          /\ wcall.err = "none"
          /\ wm.d = SelectSeq(wcall.ret.pre.d, LAMBDA item : item[2] # Zero)

(***************************************************************************)
(* C22: CoinTest with as many heads as tails                                *)
(***************************************************************************)
\* PValue(n), n >= 1, has run on a CoinTest built with heads == tails
FairCoinTested ==
    /\ ht.kind = "Coin"
    /\ ht.data[1] = ht.data[2]
    /\ hret.op = "PValue"
    /\ hret.arg >= 1

\* C22: on a CoinTest constructed with heads == tails, PValue(n) with n >= 1
\* returns exactly 1 whatever the flips turn out to be: actual is 0, every
\* simulated dataset has as many flips as the data, and every simulated
\* statistic |heads - tails| is at least 0.
C22_FairCoin ==
    FairCoinTested =>
        /\ ht.actual = Zero
        /\ \A i \in CallsOf("RunModel") :
              ht.calls[i].out[1] + ht.calls[i].out[2] = ht.data[1] + ht.data[2]
        /\ \A i \in 1..Len(ht.test_stats) : RLe(ht.actual, ht.test_stats[i])
        /\ hret.err = "none"
        /\ hret.val = One

\* CoinTest((1, 1)).PValue(2) with the flips giving no head, then one head
C22_Witness ==
    /\ FairCoinTested
    /\ ht.data = <<1, 1>>
    /\ hret.arg = 2
    /\ ht.test_stats = <<FromInt(2), Zero>>
    /\ hret.val = One

(***************************************************************************)
(* C23, C24: HazardFunction.Extend and Truncate                             *)
(***************************************************************************)
\* the times of a series are strictly ascending
StrictlyAscending(series) ==
    \A i \in 1..(Len(series) - 1) : series[i][1] < series[i + 1][1]

\* the entries of series whose time lies beyond every time of base
Beyond(series, base) ==
    SelectSeq(series, LAMBDA item : \A i \in 1..Len(base) : item[1] > base[i][1])

Truncated == sq.op = "Truncate"

\* C24: Truncate(t) removes exactly the entries with time >= t and leaves those
\* with time < t as they were; a second Truncate(t) changes nothing; and
\* after any sequence of Truncate and Extend calls on hazard functions with
\* ascending times the times are strictly ascending, none of them twice.
C24_Truncate ==
    /\ StrictlyAscending(hf.series)
    /\ Truncated =>
          LET pre == sq.arg.pre.series
              t == sq.arg.t IN
          /\ \A i \in 1..Len(hf.series) : hf.series[i][1] < t
          /\ \A i \in 1..Len(pre) :
                pre[i][1] < t => i <= Len(hf.series) /\ hf.series[i] = pre[i]
          /\ Cardinality({i \in 1..Len(pre) : pre[i][1] < t}) = Len(hf.series)
          /\ Truncate(hf, t) = hf

\* Truncate(1) cut a function that Extend had spliced from times 0 and 1, 2
C24_Witness ==
    /\ Truncated
    /\ sq.arg.t = 1
    /\ sq.arg.pre.series = <<<<0, One>>, <<1, Rat(1, 4)>>, <<2, Rat(1, 4)>>>>
    /\ hf.series = <<<<0, One>>>>

(***************************************************************************)
(* C25: RemainingLifetime                                                   *)
(***************************************************************************)
\* RemainingLifetime was called on the survival function of a Kaplan-Meier
\* estimate that recorded at least one time
LifetimeAsked ==
    /\ sq.op = "RemainingLifetime"
    /\ hz.made /\ hz.err = "none"
    /\ Len(sf.ts) >= 1

\* the lifetime mass at the i-th recorded time: S(t_{i-1}) - S(t_i)
MassAt(i) == IF i = 1 THEN RSub(One, sf.ss[1]) ELSE RSub(sf.ss[i - 1], sf.ss[i])

\* the sum of f(j) for j in lo..hi
RECURSIVE SumFrom(_, _, _)
SumFrom(f(_), lo, hi) == IF lo > hi THEN Zero ELSE RAdd(f(lo), SumFrom(f, lo + 1, hi))

\* the mean lifetime of those who survive past the i-th time, minus that time
ConditionalMean(i) ==
    LET n == Len(sf.ts)
        Weighted(j) == RMul(MassAt(j), FromInt(sf.ts[j]))
    IN  RSub(RDiv(SumFrom(Weighted, i + 1, n), SumFrom(MassAt, i + 1, n)),
             FromInt(sf.ts[i]))

\* C25: on the survival function of a Kaplan-Meier estimate with times
\* t_1 < ... < t_n, RemainingLifetime() raises nothing and returns one entry
\* for each t_i with i < n: the mean of the lifetime Pmf conditioned on
\* survival past t_i, minus t_i.
C25_RemainingLifetime ==
    LifetimeAsked =>
        /\ sq.ret.err = "none"
        /\ Len(sq.ret.val) = Len(sf.ts) - 1
        /\ \A i \in 1..(Len(sf.ts) - 1) :
              /\ sq.ret.val[i][1] = sf.ts[i]
              /\ sq.ret.val[i][2] = ConditionalMean(i)

(***************************************************************************)
(* Claims about the hazard round trip (SpecRoundTrip)                       *)
(***************************************************************************)
\* every hazard of the series is in [0, 1)
BelowOne(series) ==
    \A i \in 1..Len(series) : RLe(Zero, series[i][2]) /\ RLt(series[i][2], One)

\* C26: for a HazardFunction hf with ascending times and hazards in [0, 1),
\* hf.MakeSurvival().MakeHazardFunction() has the same times and the same
\* hazards as hf.
C26_HazardRoundTrip ==
    (sq.op = "MakeHazardFunction" /\ BelowOne(hf.series)) =>
        sq.ret = [err |-> "none", val |-> hf.series]

\* three times with hazards 1/4, 0 and 1/2 come back from the survival curve
\* 3/4, 3/4, 3/8
C26_Witness ==
    /\ sq.op = "MakeHazardFunction"
    /\ hf.series = <<<<0, Rat(1, 4)>>, <<1, Zero>>, <<2, Rat(1, 2)>>>>
    /\ sf.ss = <<Rat(3, 4), Rat(3, 4), Rat(3, 8)>>
    /\ sq.ret.val = hf.series

(***************************************************************************)
(* Claims about Copy and Scale(1) (SpecCopy)                                *)
(***************************************************************************)
\* the last derivation was Copy() or Scale(1), on a map or on a Cdf
CopiedOrScaledByOne ==
    \/ frame.op \in {"Copy", "Cdf.Copy"}
    \/ frame.op \in {"Scale", "Cdf.Scale"} /\ frame.arg = 1

\* equality by value: dicts compare as sets of items, the arrays of a Cdf
\* element by element
EqualByValue(o, a, b) ==
    IF o.kind = "Cdf" THEN a = b
    ELSE {a[i] : i \in DOMAIN a} = {b[i] : i \in DOMAIN b}

\* what C27 says of maps and Cdfs
CopyOfHeapObject ==
    CopiedOrScaledByOne =>
        /\ der.kind = src.kind
        /\ Addresses(src) \cap Addresses(der) = {}
        /\ EqualByValue(src, Contents(heap, der), Contents(heap, src))
        /\ Contents(heap, src) = frame.src

\* C27: Scale(1) and Copy() each return a new structure equal by value to the
\* original, and leave the original unchanged, for Hist/Pmf, Cdf and
\* SurvivalFunction.
C27_CopyScale ==
    /\ CopyOfHeapObject
    /\ (sq.op = "Copy" \/ (sq.op = "Scale" /\ sq.arg = 1)) =>
          sq.ret.err = "none"

(***************************************************************************)
(* Claims about Max (SpecMax)                                               *)
(***************************************************************************)
\* the share of the weight of d on the keys up to x
ShareUpTo(d, x) ==
    RDiv(Total(SelectSeq(d, LAMBDA item : item[1] <= x)), Total(d))

\* the cumulative probabilities of the maximum of k draws from the uniform
\* distribution over {1, 2, 3}
UniformMax(k) ==
    IF k = 1 THEN <<Rat(1, 3), Rat(2, 3), One>>
    ELSE IF k = 2 THEN <<Rat(1, 9), Rat(4, 9), One>>
    ELSE <<Rat(1, 27), Rat(8, 27), One>>

\* the source is the uniform distribution over {1, 2, 3}, as a Pmf or a Cdf
UniformSource ==
    \/ src.kind = "Pmf" /\ frame.src = <<<<1, Rat(1, 3)>>, <<2, Rat(1, 3)>>, <<3, Rat(1, 3)>>>>
    \/ src.kind = "Cdf" /\ frame.src = <<<<1, 2, 3>>, <<Rat(1, 3), Rat(2, 3), One>>>>

\* C28: for a Cdf C and an integer k >= 1, C.Max(k) returns a new Cdf with the
\* same xs and ps'[i] = ps[i]^k and leaves C unchanged; Pmf.Max(k) is the k-th
\* power of the Pmf's cumulative distribution over its sorted values; for the
\* uniform distribution over {1, 2, 3} the result has the cumulative
\* probabilities (1/3)^k, (2/3)^k, 1 for k = 1, 2, 3.
C28_Max ==
    frame.op \in {"Cdf.Max", "Pmf.Max"} =>
        LET k == frame.arg
            out == Contents(heap, der)
        IN  /\ der.kind = "Cdf"
            /\ Addresses(src) \cap Addresses(der) = {}
            /\ Contents(heap, src) = frame.src
            /\ src.kind = "Cdf" =>
                  /\ out[1] = frame.src[1]
                  /\ Len(out[2]) = Len(frame.src[2])
                  /\ \A i \in 1..Len(out[2]) : out[2][i] = RPow(frame.src[2][i], k)
            /\ src.kind = "Pmf" =>
                  /\ out[1] = Ascending(Keys(frame.src))
                  /\ Len(out[2]) = Len(out[1])
                  /\ \A i \in 1..Len(out[2]) :
                        out[2][i] = RPow(ShareUpTo(frame.src, out[1][i]), k)
            /\ (UniformSource /\ k \in 1..3) =>
                  out = <<<<1, 2, 3>>, UniformMax(k)>>

\* the maximum of three draws from the uniform Cdf over {1, 2, 3}
C28_Witness ==
    /\ frame.op = "Cdf.Max" /\ frame.arg = 3
    /\ UniformSource
    /\ Contents(heap, der) = <<<<1, 2, 3>>, <<Rat(1, 27), Rat(8, 27), One>>>>
    /\ Contents(heap, src) = <<<<1, 2, 3>>, <<Rat(1, 3), Rat(2, 3), One>>>>

(***************************************************************************)
(* Claims about EstimateHazardNumpy (SpecNumpy)                             *)
(***************************************************************************)
\* the entries of a series as a mapping
Mapping(series) == {series[i] : i \in DOMAIN series}

\* C29: EstimateHazardNumpy(complete, ongoing) returns the same time-to-hazard
\* mapping as EstimateHazardFunction(complete, ongoing), whatever order the set
\* of distinct times is iterated in.
C29_NumpyAgrees ==
    (hz.made /\ sq.op = "EstimateHazardNumpy") =>
        /\ sq.ret.err = hz.err
        /\ Mapping(sq.ret.val) = Mapping(hz.lams)

(***************************************************************************)
(* Claims about a failed Update (SpecSuite)                                 *)
(***************************************************************************)
\* C30: if Suite.Update(data) fails, the suite's weights are the same as before
\* the call, so the suite is still a normalized distribution that a later Update
\* can use.
C30_FailedUpdate ==
    (slast.op = "Update" /\ ~slast.ok) =>
        /\ suite.d = slast.pre
        /\ Total(suite.d) = One

====
